---- MODULE Spec2Model ----
(***************************************************************************)
(* Federation activity-processing pipeline of GoToSocial.                  *)
(*                                                                         *)
(*   - the outbound dispatcher, processor.ProcessFromClientAPI and its     *)
(*     federate* helpers (src/internal/processing/fromclientapi.go);       *)
(*   - the inbound data endpoints, processor.GetFedi* (src/unnamed/        *)
(*     part_003), together with the handshake tracker and the remote       *)
(*     account resolution they consult.                                    *)
(*                                                                         *)
(* Collaborators (storage, timelines, notifications, media, the type       *)
(* converter, the federating actor) are observed through the sequence of   *)
(* calls a dispatch makes on them, each call recorded with its outcome.    *)
(***************************************************************************)
EXTENDS Naturals, Sequences, FiniteSets

VARIABLES
    clientMsg,      \* dispatcher: worker -> the FromClientAPI message being processed
    payload,        \* dispatcher: worker -> clientMsg.GTSModel as the dispatch has left it
    calls,          \* dispatcher: worker -> collaborator calls made so far, in order
    result,         \* dispatcher: worker -> "idle" | "running" | "ok" | "error"
    handshakes,     \* inbound: the (username, requester URI) pairs being dereferenced
    knownRemote,    \* inbound: requester URIs with an account record in the database
    blocks,         \* inbound: the block records, <<blocker, blocked>> account IDs
    request,        \* inbound: task -> the request it serves
    rpc,            \* inbound: task -> "idle" | "deref" | "wait" | "done"
    response,       \* inbound: task -> what the handler returned
    trace,          \* inbound: task -> what the handler did on the way
    followersCall   \* storage: the call of Followers in progress

dispatchVars == <<clientMsg, payload, calls, result>>
fediVars == <<handshakes, knownRemote, blocks, request, rpc, response, trace>>
dbVars == <<followersCall>>
vars == <<clientMsg, payload, calls, result,
          handshakes, knownRemote, blocks, request, rpc, response, trace,
          followersCall>>

(***************************************************************************)
(* Bounds of the model.                                                    *)
(***************************************************************************)
MaxAttachments == 1
MaxMentions == 1
MaxFollowers == 3

Workers == {"w1", "w2"}

(***************************************************************************)
(* gtsmodel.Account: accounts are referred to by ID; an account is local   *)
(* when its Domain is the empty string.                                    *)
(***************************************************************************)
LocalAccounts == {"local1", "local2"}
RemoteAccounts == {"remote1"}
Accounts == LocalAccounts \cup RemoteAccounts
NoAccount == "nil"

Domain(a) == IF a \in RemoteAccounts THEN "remote.example" ELSE ""
URI(a) == <<"users", a>>
OutboxURI(a) == <<"users", a, "outbox">>
FollowersURI(a) == <<"users", a, "followers">>
StatusURI(id) == <<"statuses", id>>
PublicURI == <<"as", "Public">>

\* url.Parse: the stored URIs that do not parse.
Parses(uri) == uri \notin {URI("remote9"), StatusURI("r9")}

NoModel == [kind |-> "nil"]

(***************************************************************************)
(* The type converter (p.tc).  Each conversion yields the ActivityStreams  *)
(* representation of a stored record.                                      *)
(***************************************************************************)
StatusToAS(status) ==
    [type |-> "Note",
     id |-> StatusURI(status.ID),
     attributedTo |-> URI(status.AccountID),
     to |-> IF status.Visibility = "public" THEN {PublicURI}
            ELSE {FollowersURI(status.AccountID)},
     cc |-> IF status.Visibility = "public" THEN {FollowersURI(status.AccountID)}
            ELSE {}]

FollowRequestToFollow(followRequest) ==
    [followRequest EXCEPT !.kind = "Follow"]

FollowToAS(follow, originAccount, targetAccount) ==
    [type |-> "Follow",
     id |-> <<"follow", follow.ID>>,
     actor |-> URI(originAccount),
     object |-> URI(targetAccount),
     to |-> {URI(targetAccount)},
     cc |-> {}]

FaveToAS(fave) ==
    [type |-> "Like",
     id |-> <<"like", fave.ID>>,
     actor |-> URI(fave.AccountID),
     object |-> StatusURI(fave.StatusID),
     to |-> {URI(fave.TargetAccountID)},
     cc |-> {}]

BoostToAS(boost, boostingAccount, boostedAccount) ==
    [type |-> "Announce",
     id |-> StatusURI(boost.ID),
     actor |-> URI(boostingAccount),
     object |-> StatusURI(boost.BoostOfID),
     to |-> {PublicURI},
     cc |-> {FollowersURI(boostingAccount), URI(boostedAccount)}]

BlockToAS(block) ==
    [type |-> "Block",
     id |-> <<"block", block.ID>>,
     actor |-> URI(block.Account),
     object |-> URI(block.TargetAccount),
     to |-> {URI(block.TargetAccount)},
     cc |-> {}]

AccountToAS(account) ==
    [type |-> "Person", id |-> URI(account.ID)]

WrapPersonInUpdate(person, originAccount) ==
    [type |-> "Update",
     actor |-> URI(originAccount),
     object |-> person,
     to |-> {PublicURI},
     cc |-> {}]

(***************************************************************************)
(* One step of a dispatch: a call on a collaborator (which may return an   *)
(* error, ending the dispatch) or an assignment to the payload record.     *)
(*   op       the collaborator method                                      *)
(*   arg      its arguments                                                *)
(*   fallible whether the code checks an error return of it                *)
(*   mutates  whether, on success, the payload record is assigned          *)
(*   set      the payload record after that assignment                     *)
(***************************************************************************)
Invoke(op, arg) ==
    [op |-> op, arg |-> arg, fallible |-> TRUE, mutates |-> FALSE, set |-> NoModel]

Pure(op, arg) ==
    [op |-> op, arg |-> arg, fallible |-> FALSE, mutates |-> FALSE, set |-> NoModel]

Fetch(op, arg, model) ==
    [op |-> op, arg |-> arg, fallible |-> TRUE, mutates |-> TRUE, set |-> model]

Assign(model) ==
    [op |-> "assign", arg |-> NoModel, fallible |-> FALSE, mutates |-> TRUE, set |-> model]

Send(outboxIRI, activity) ==
    Invoke("Send", [outbox |-> outboxIRI, activity |-> activity])

(***************************************************************************)
(* The federate* helpers: the steps each one takes, in program order.      *)
(***************************************************************************)
\* Mutant of federateStatus: the delivery is attempted a second time.
federateStatus_Retries(status) ==
    LET fetch == status.Account = NoAccount
        st == IF fetch THEN [status EXCEPT !.Account = status.AccountID] ELSE status
        pre == IF fetch THEN << Fetch("GetAccountByID", status.AccountID, st) >> ELSE << >>
    IN  pre \o
        (IF Domain(st.Account) # "" THEN << >>
         ELSE << Invoke("StatusToAS", st.ID),
                 Send(OutboxURI(st.Account), StatusToAS(st)),
                 Send(OutboxURI(st.Account), StatusToAS(st)) >>)

federateStatus(status) ==
    LET fetch == status.Account = NoAccount
        st == IF fetch THEN [status EXCEPT !.Account = status.AccountID] ELSE status
        pre == IF fetch THEN << Fetch("GetAccountByID", status.AccountID, st) >> ELSE << >>
    IN  pre \o
        (IF Domain(st.Account) # "" THEN << >>
         ELSE << Invoke("StatusToAS", st.ID),
                 Send(OutboxURI(st.Account), StatusToAS(st)) >>)

federateStatusDelete(status) ==
    LET fetch == status.Account = NoAccount
        st == IF fetch THEN [status EXCEPT !.Account = status.AccountID] ELSE status
        pre == IF fetch THEN << Fetch("GetAccountByID", status.AccountID, st) >> ELSE << >>
        asStatus == StatusToAS(st)
        delete == [type |-> "Delete",
                   actor |-> URI(st.Account),
                   object |-> asStatus,
                   to |-> asStatus.to,
                   cc |-> asStatus.cc]
    IN  pre \o
        (IF Domain(st.Account) # "" THEN << >>
         ELSE << Invoke("StatusToAS", st.ID),
                 Send(OutboxURI(st.Account), delete) >>)

federateFollow(followRequest, originAccount, targetAccount) ==
    IF Domain(originAccount) = "" /\ Domain(targetAccount) = "" THEN << >>
    ELSE LET follow == FollowRequestToFollow(followRequest)
             asFollow == FollowToAS(follow, originAccount, targetAccount)
         IN  << Pure("FollowRequestToFollow", followRequest.ID),
                Invoke("FollowToAS", follow.ID),
                Send(OutboxURI(originAccount), asFollow) >>

\* Mutant of federateUnfollow: the follow is recreated with its accounts exchanged.
federateUnfollow_Exchanged(follow, originAccount, targetAccount) ==
    IF Domain(originAccount) = "" /\ Domain(targetAccount) = "" THEN << >>
    ELSE LET asFollow == FollowToAS(follow, targetAccount, originAccount)
             undo == [type |-> "Undo",
                      actor |-> asFollow.actor,
                      object |-> asFollow,
                      to |-> {URI(targetAccount)},
                      cc |-> {}]
         IN  << Invoke("FollowToAS", follow.ID),
                Send(OutboxURI(originAccount), undo) >>

federateUnfollow(follow, originAccount, targetAccount) ==
    IF Domain(originAccount) = "" /\ Domain(targetAccount) = "" THEN << >>
    ELSE LET asFollow == FollowToAS(follow, originAccount, targetAccount)
             undo == [type |-> "Undo",
                      actor |-> asFollow.actor,
                      object |-> asFollow,
                      to |-> {URI(targetAccount)},
                      cc |-> {}]
         IN  << Invoke("FollowToAS", follow.ID),
                Send(OutboxURI(originAccount), undo) >>

\* Mutant of federateUnfave: the Undo is addressed to the account that faved.
federateUnfave_ToActor(fave, originAccount, targetAccount) ==
    IF Domain(originAccount) = "" /\ Domain(targetAccount) = "" THEN << >>
    ELSE LET asFave == FaveToAS(fave)
             undo == [type |-> "Undo",
                      actor |-> asFave.actor,
                      object |-> asFave,
                      to |-> {URI(originAccount)},
                      cc |-> {}]
         IN  << Invoke("FaveToAS", fave.ID),
                Send(OutboxURI(originAccount), undo) >>

federateUnfave(fave, originAccount, targetAccount) ==
    IF Domain(originAccount) = "" /\ Domain(targetAccount) = "" THEN << >>
    ELSE LET asFave == FaveToAS(fave)
             undo == [type |-> "Undo",
                      actor |-> asFave.actor,
                      object |-> asFave,
                      to |-> {URI(targetAccount)},
                      cc |-> {}]
         IN  << Invoke("FaveToAS", fave.ID),
                Send(OutboxURI(originAccount), undo) >>

\* Mutant of federateUnannounce: the cc of the Announce is not copied.
federateUnannounce_DropsCc(boost, originAccount, targetAccount) ==
    IF Domain(originAccount) # "" THEN << >>
    ELSE LET asAnnounce == BoostToAS(boost, originAccount, targetAccount)
             undo == [type |-> "Undo",
                      actor |-> asAnnounce.actor,
                      object |-> asAnnounce,
                      to |-> asAnnounce.to,
                      cc |-> {}]
         IN  << Invoke("BoostToAS", boost.ID),
                Send(OutboxURI(originAccount), undo) >>

federateUnannounce(boost, originAccount, targetAccount) ==
    IF Domain(originAccount) # "" THEN << >>
    ELSE LET asAnnounce == BoostToAS(boost, originAccount, targetAccount)
             undo == [type |-> "Undo",
                      actor |-> asAnnounce.actor,
                      object |-> asAnnounce,
                      to |-> asAnnounce.to,
                      cc |-> asAnnounce.cc]
         IN  << Invoke("BoostToAS", boost.ID),
                Send(OutboxURI(originAccount), undo) >>

\* Mutant of federateAcceptFollowRequest: the Accept leaves by the requester's outbox.
federateAcceptFollowRequest_ViaRequester(follow, originAccount, targetAccount) ==
    IF Domain(originAccount) = "" /\ Domain(targetAccount) = "" THEN << >>
    ELSE LET asFollow == FollowToAS(follow, originAccount, targetAccount)
             accept == [type |-> "Accept",
                        actor |-> URI(targetAccount),
                        object |-> asFollow,
                        to |-> {URI(originAccount)},
                        cc |-> {}]
         IN  << Invoke("FollowToAS", follow.ID),
                Send(OutboxURI(originAccount), accept) >>

federateAcceptFollowRequest(follow, originAccount, targetAccount) ==
    IF Domain(originAccount) = "" /\ Domain(targetAccount) = "" THEN << >>
    ELSE LET asFollow == FollowToAS(follow, originAccount, targetAccount)
             accept == [type |-> "Accept",
                        actor |-> URI(targetAccount),
                        object |-> asFollow,
                        to |-> {URI(originAccount)},
                        cc |-> {}]
         IN  << Invoke("FollowToAS", follow.ID),
                Send(OutboxURI(targetAccount), accept) >>

\* Mutant of federateFave: the check that both accounts are local is missing.
federateFave_NoLocalCheck(fave, originAccount, targetAccount) ==
    << Invoke("FaveToAS", fave.ID),
       Send(OutboxURI(originAccount), FaveToAS(fave)) >>

federateFave(fave, originAccount, targetAccount) ==
    IF Domain(originAccount) = "" /\ Domain(targetAccount) = "" THEN << >>
    ELSE << Invoke("FaveToAS", fave.ID),
            Send(OutboxURI(originAccount), FaveToAS(fave)) >>

federateAnnounce(boostWrapperStatus, boostingAccount, boostedAccount) ==
    << Invoke("BoostToAS", boostWrapperStatus.ID),
       Send(OutboxURI(boostingAccount),
            BoostToAS(boostWrapperStatus, boostingAccount, boostedAccount)) >>

federateAccountUpdate(updatedAccount, originAccount) ==
    LET person == AccountToAS(updatedAccount)
    IN  << Invoke("AccountToAS", updatedAccount.ID),
           Invoke("WrapPersonInUpdate", updatedAccount.ID),
           Send(OutboxURI(originAccount), WrapPersonInUpdate(person, originAccount)) >>

\* The two lookups that federateBlock and federateUnblock start with.
blockAccounts(block) ==
    LET b1 == IF block.Account = NoAccount
              THEN [block EXCEPT !.Account = block.AccountID] ELSE block
        b2 == IF b1.TargetAccount = NoAccount
              THEN [b1 EXCEPT !.TargetAccount = b1.TargetAccountID] ELSE b1
    IN  [block |-> b2,
         steps |->
            (IF block.Account = NoAccount
             THEN << Fetch("GetAccountByID", block.AccountID, b1) >> ELSE << >>)
            \o
            (IF b1.TargetAccount = NoAccount
             THEN << Fetch("GetAccountByID", b1.TargetAccountID, b2) >> ELSE << >>)]

federateBlock(block) ==
    LET got == blockAccounts(block)
        b == got.block
    IN  got.steps \o
        (IF Domain(b.Account) = "" /\ Domain(b.TargetAccount) = "" THEN << >>
         ELSE << Invoke("BlockToAS", b.ID),
                 Send(OutboxURI(b.Account), BlockToAS(b)) >>)

federateUnblock(block) ==
    LET got == blockAccounts(block)
        b == got.block
        asBlock == BlockToAS(b)
        undo == [type |-> "Undo",
                 actor |-> asBlock.actor,
                 object |-> asBlock,
                 to |-> {URI(b.TargetAccount)},
                 cc |-> {}]
    IN  got.steps \o
        (IF Domain(b.Account) = "" /\ Domain(b.TargetAccount) = "" THEN << >>
         ELSE << Invoke("BlockToAS", b.ID),
                 Send(OutboxURI(b.Account), undo) >>)

(***************************************************************************)
(* processor.ProcessFromClientAPI, one operator per branch of its switch.  *)
(* A branch yields the steps of the dispatch, or reports that the payload  *)
(* is not of the model type the branch casts it to.                        *)
(***************************************************************************)
Mismatch == [mismatch |-> TRUE, steps |-> << >>]
Steps(s) == [mismatch |-> FALSE, steps |-> s]

\* Mutant of createNote: the Federated flag of the status is not looked at.
createNote_IgnoresFederated(msg) ==
    LET status == msg.GTSModel
    IN  IF status.kind # "Status" THEN Mismatch
        ELSE Steps(<< Invoke("timelineStatus", status.ID),
                      Invoke("notifyStatus", status.ID) >>
                   \o federateStatus(status))

\* Mutant of createNote: the status is federated before its notifications are made.
createNote_FederatesFirst(msg) ==
    LET status == msg.GTSModel
    IN  IF status.kind # "Status" THEN Mismatch
        ELSE Steps(<< Invoke("timelineStatus", status.ID) >>
                   \o (IF status.Federated THEN federateStatus(status) ELSE << >>)
                   \o << Invoke("notifyStatus", status.ID) >>)

createNote(msg) ==
    LET status == msg.GTSModel
    IN  IF status.kind # "Status" THEN Mismatch
        ELSE Steps(<< Invoke("timelineStatus", status.ID),
                      Invoke("notifyStatus", status.ID) >>
                   \o (IF status.Federated THEN federateStatus(status) ELSE << >>))

\* Mutant of createFollow: the payload is used without the cast being checked.
createFollow_Unchecked(msg) ==
    LET followRequest == msg.GTSModel
    IN  Steps(<< Invoke("notifyFollowRequest", followRequest.ID) >>
              \o federateFollow(followRequest, msg.OriginAccount, msg.TargetAccount))

createFollow(msg) ==
    LET followRequest == msg.GTSModel
    IN  IF followRequest.kind # "FollowRequest" THEN Mismatch
        ELSE Steps(<< Invoke("notifyFollowRequest", followRequest.ID) >>
                   \o federateFollow(followRequest, msg.OriginAccount, msg.TargetAccount))

\* Mutant of createLike: a fave between two local accounts is not notified.
createLike_QuietWhenLocal(msg) ==
    LET fave == msg.GTSModel
    IN  IF fave.kind # "StatusFave" THEN Mismatch
        ELSE Steps((IF Domain(msg.OriginAccount) = "" /\ Domain(msg.TargetAccount) = ""
                    THEN << >> ELSE << Invoke("notifyFave", fave.ID) >>)
                   \o federateFave(fave, msg.OriginAccount, msg.TargetAccount))

createLike(msg) ==
    LET fave == msg.GTSModel
    IN  IF fave.kind # "StatusFave" THEN Mismatch
        ELSE Steps(<< Invoke("notifyFave", fave.ID) >>
                   \o federateFave(fave, msg.OriginAccount, msg.TargetAccount))

createAnnounce(msg) ==
    LET boostWrapperStatus == msg.GTSModel
    IN  IF boostWrapperStatus.kind # "Status" THEN Mismatch
        ELSE Steps(<< Invoke("timelineStatus", boostWrapperStatus.ID),
                      Invoke("notifyAnnounce", boostWrapperStatus.ID) >>
                   \o federateAnnounce(boostWrapperStatus, msg.OriginAccount,
                                       msg.TargetAccount))

\* Mutant of createBlock: an error of the second wipe is not looked at.
createBlock_IgnoresWipeError(msg) ==
    LET block == msg.GTSModel
    IN  IF block.kind # "Block" THEN Mismatch
        ELSE Steps(<< Invoke("WipeStatusesFromAccountID",
                             <<block.AccountID, block.TargetAccountID>>),
                      Pure("WipeStatusesFromAccountID",
                           <<block.TargetAccountID, block.AccountID>>) >>
                   \o federateBlock(block))

createBlock(msg) ==
    LET block == msg.GTSModel
    IN  IF block.kind # "Block" THEN Mismatch
        ELSE Steps(<< Invoke("WipeStatusesFromAccountID",
                             <<block.AccountID, block.TargetAccountID>>),
                      Invoke("WipeStatusesFromAccountID",
                             <<block.TargetAccountID, block.AccountID>>) >>
                   \o federateBlock(block))

updateProfile(msg) ==
    LET account == msg.GTSModel
    IN  IF account.kind # "Account" THEN Mismatch
        ELSE Steps(federateAccountUpdate(account, msg.OriginAccount))

acceptFollow(msg) ==
    LET follow == msg.GTSModel
    IN  IF follow.kind # "Follow" THEN Mismatch
        ELSE Steps(<< Invoke("notifyFollow", <<follow.ID, msg.TargetAccount>>) >>
                   \o federateAcceptFollowRequest(follow, msg.OriginAccount,
                                                  msg.TargetAccount))

undoFollow(msg) ==
    LET follow == msg.GTSModel
    IN  IF follow.kind # "Follow" THEN Mismatch
        ELSE Steps(federateUnfollow(follow, msg.OriginAccount, msg.TargetAccount))

undoBlock(msg) ==
    LET block == msg.GTSModel
    IN  IF block.kind # "Block" THEN Mismatch
        ELSE Steps(federateUnblock(block))

undoLike(msg) ==
    LET fave == msg.GTSModel
    IN  IF fave.kind # "StatusFave" THEN Mismatch
        ELSE Steps(federateUnfave(fave, msg.OriginAccount, msg.TargetAccount))

undoAnnounce(msg) ==
    LET boost == msg.GTSModel
    IN  IF boost.kind # "Status" THEN Mismatch
        ELSE Steps(<< Invoke("deleteStatusFromTimelines", boost.ID) >>
                   \o federateUnannounce(boost, msg.OriginAccount, msg.TargetAccount))

\* Mutant of deleteNote: the mentions of the status are left in place.
deleteNote_KeepsMentions(msg) ==
    LET given == msg.GTSModel
        statusToDelete == IF given.Account = NoAccount
                          THEN [given EXCEPT !.Account = msg.OriginAccount]
                          ELSE given
    IN  IF given.kind # "Status" THEN Mismatch
        ELSE Steps((IF given.Account = NoAccount
                    THEN << Assign(statusToDelete) >> ELSE << >>)
                   \o [i \in 1..Len(given.AttachmentIDs) |->
                          Invoke("mediaProcessor.Delete", given.AttachmentIDs[i])]
                   \o << Invoke("db.DeleteWhere", given.ID),
                         Invoke("deleteStatusFromTimelines", given.ID) >>
                   \o federateStatusDelete(statusToDelete))

deleteNote(msg) ==
    LET given == msg.GTSModel
        statusToDelete == IF given.Account = NoAccount
                          THEN [given EXCEPT !.Account = msg.OriginAccount]
                          ELSE given
    IN  IF given.kind # "Status" THEN Mismatch
        ELSE Steps((IF given.Account = NoAccount
                    THEN << Assign(statusToDelete) >> ELSE << >>)
                   \o [i \in 1..Len(given.AttachmentIDs) |->
                          Invoke("mediaProcessor.Delete", given.AttachmentIDs[i])]
                   \o [i \in 1..Len(given.MentionIDs) |->
                          Invoke("db.DeleteByID", given.MentionIDs[i])]
                   \o << Invoke("db.DeleteWhere", given.ID),
                         Invoke("deleteStatusFromTimelines", given.ID) >>
                   \o federateStatusDelete(statusToDelete))

\* Mutant of deleteProfile: the origin recorded is always the origin account.
deleteProfile_OriginAlwaysAccount(msg) ==
    Steps(<< Invoke("accountProcessor.Delete",
                    [account |-> msg.TargetAccount, origin |-> msg.OriginAccount]) >>)

deleteProfile(msg) ==
    LET origin == IF msg.GTSModel.kind = "DomainBlock"
                  THEN msg.GTSModel.ID
                  ELSE msg.OriginAccount
    IN  Steps(<< Invoke("accountProcessor.Delete",
                        [account |-> msg.TargetAccount, origin |-> origin]) >>)

\* Mutant of ProcessFromClientAPI: a combination without a case is an error.
ProcessFromClientAPI_RejectsUnknown(msg) ==
    LET verb == msg.APActivityType
        obj == msg.APObjectType
    IN  CASE verb = "Create" /\ obj = "Note" -> createNote(msg)
          [] verb = "Create" /\ obj = "Follow" -> createFollow(msg)
          [] verb = "Create" /\ obj = "Like" -> createLike(msg)
          [] verb = "Create" /\ obj = "Announce" -> createAnnounce(msg)
          [] verb = "Create" /\ obj = "Block" -> createBlock(msg)
          [] verb = "Update" /\ obj \in {"Profile", "Person"} -> updateProfile(msg)
          [] verb = "Accept" /\ obj = "Follow" -> acceptFollow(msg)
          [] verb = "Undo" /\ obj = "Follow" -> undoFollow(msg)
          [] verb = "Undo" /\ obj = "Block" -> undoBlock(msg)
          [] verb = "Undo" /\ obj = "Like" -> undoLike(msg)
          [] verb = "Undo" /\ obj = "Announce" -> undoAnnounce(msg)
          [] verb = "Delete" /\ obj = "Note" -> deleteNote(msg)
          [] verb = "Delete" /\ obj \in {"Profile", "Person"} -> deleteProfile(msg)
          [] OTHER -> Mismatch

ProcessFromClientAPI(msg) ==
    LET verb == msg.APActivityType
        obj == msg.APObjectType
    IN  CASE verb = "Create" /\ obj = "Note" -> createNote(msg)
          [] verb = "Create" /\ obj = "Follow" -> createFollow(msg)
          [] verb = "Create" /\ obj = "Like" -> createLike(msg)
          [] verb = "Create" /\ obj = "Announce" -> createAnnounce(msg)
          [] verb = "Create" /\ obj = "Block" -> createBlock(msg)
          [] verb = "Update" /\ obj \in {"Profile", "Person"} -> updateProfile(msg)
          [] verb = "Accept" /\ obj = "Follow" -> acceptFollow(msg)
          [] verb = "Undo" /\ obj = "Follow" -> undoFollow(msg)
          [] verb = "Undo" /\ obj = "Block" -> undoBlock(msg)
          [] verb = "Undo" /\ obj = "Like" -> undoLike(msg)
          [] verb = "Undo" /\ obj = "Announce" -> undoAnnounce(msg)
          [] verb = "Delete" /\ obj = "Note" -> deleteNote(msg)
          [] verb = "Delete" /\ obj \in {"Profile", "Person"} -> deleteProfile(msg)
          [] OTHER -> Steps(<< >>)

(***************************************************************************)
(* The messages the local-action layer hands to the dispatcher.            *)
(***************************************************************************)
Message(verb, obj, model, originAccount, targetAccount) ==
    [APActivityType |-> verb, APObjectType |-> obj, GTSModel |-> model,
     OriginAccount |-> originAccount, TargetAccount |-> targetAccount]

Status(id, author, populated, federated, visibility, nAttachments, nMentions) ==
    [kind |-> "Status", ID |-> id, AccountID |-> author,
     Account |-> IF populated THEN author ELSE NoAccount,
     Federated |-> federated, Visibility |-> visibility,
     AttachmentIDs |-> [i \in 1..nAttachments |-> <<"attachment", i>>],
     MentionIDs |-> [i \in 1..nMentions |-> <<"mention", i>>],
     BoostOfID |-> "boosted"]

Relation(kind, originAccount, targetAccount, populated) ==
    [kind |-> kind, ID |-> "rel", StatusID |-> "faved",
     AccountID |-> originAccount,
     Account |-> IF populated THEN originAccount ELSE NoAccount,
     TargetAccountID |-> targetAccount,
     TargetAccount |-> IF populated THEN targetAccount ELSE NoAccount]

AccountModel(a) == [kind |-> "Account", ID |-> a]
DomainBlockModel == [kind |-> "DomainBlock", ID |-> "domainblock", Domain |-> "remote.example"]

\* <<origin, target>>: both local, local to remote, remote to local.
Pairs == {<<"local1", "local2">>, <<"local1", "remote1">>, <<"remote1", "local1">>}

NoteMessages ==
    {Message("Create", "Note", Status("s1", a, pop, fed, "public", 0, 0), a, a) :
        a \in {"local1", "remote1"}, pop \in BOOLEAN, fed \in BOOLEAN}

RelationMessages ==
    {Message("Create", "Follow", Relation("FollowRequest", p[1], p[2], TRUE), p[1], p[2]) :
        p \in Pairs}
    \cup
    {Message(verb, "Follow", Relation("Follow", p[1], p[2], TRUE), p[1], p[2]) :
        verb \in {"Accept", "Undo"}, p \in Pairs}
    \cup
    {Message(verb, "Like", Relation("StatusFave", p[1], p[2], TRUE), p[1], p[2]) :
        verb \in {"Create", "Undo"}, p \in Pairs}
    \cup
    {Message(verb, "Block", Relation("Block", p[1], p[2], pop), p[1], p[2]) :
        verb \in {"Create", "Undo"}, p \in Pairs, pop \in BOOLEAN}

AnnounceMessages ==
    {Message(verb, "Announce", Status("b1", p[1], TRUE, TRUE, "public", 0, 0), p[1], p[2]) :
        verb \in {"Create", "Undo"}, p \in Pairs}

UpdateMessages ==
    {Message("Update", obj, AccountModel(p[1]), p[1], p[2]) :
        obj \in {"Profile", "Person"}, p \in Pairs}

\* Deletions of a status: by its author or by another account, with the
\* author's record attached or not; and with attachments and mentions.
DeleteNoteMessages ==
    {Message("Delete", "Note", Status("s1", a, pop, TRUE, vis, na, nm), o, a) :
        a \in {"local1", "remote1"}, pop \in BOOLEAN, o \in {"local1", "local2", "remote1"},
        vis \in {"public", "followers"},
        na \in 0..MaxAttachments, nm \in 0..MaxMentions}

DeleteNoteFixtures ==
    {m \in DeleteNoteMessages :
        /\ m.OriginAccount \in {m.GTSModel.AccountID, "local2"}
        /\ \/ Len(m.GTSModel.AttachmentIDs) = 0 /\ Len(m.GTSModel.MentionIDs) = 0
           \/ /\ m.GTSModel.AccountID = "local1"
              /\ m.GTSModel.Account = "local1"
              /\ m.OriginAccount = "local1"
              /\ m.GTSModel.Visibility = "public"}

DeleteProfileMessages ==
    {Message("Delete", "Profile", model, p[1], p[2]) :
        model \in {DomainBlockModel, AccountModel("local1")}, p \in Pairs}
    \cup
    {Message("Delete", "Person", AccountModel("local1"), "local1", "local1")}

\* A payload of a model type other than the one the branch casts it to.
MismatchedMessages ==
    {Message(vo[1], vo[2], DomainBlockModel, "local1", "remote1") :
        vo \in {<<"Create", "Note">>, <<"Create", "Follow">>, <<"Create", "Like">>,
                <<"Create", "Announce">>, <<"Create", "Block">>, <<"Update", "Profile">>,
                <<"Accept", "Follow">>, <<"Undo", "Follow">>, <<"Undo", "Block">>,
                <<"Undo", "Like">>, <<"Undo", "Announce">>, <<"Delete", "Note">>}}
    \cup
    {Message("Delete", "Profile", Status("s1", "local1", TRUE, TRUE, "public", 0, 0),
             "local1", "remote1")}

\* A verb or an object type the switch has no case for.
UnmatchedMessages ==
    {Message(vo[1], vo[2], Relation("Follow", "local1", "remote1", TRUE), "local1", "remote1") :
        vo \in {<<"Reject", "Follow">>, <<"Create", "Question">>,
                <<"Update", "Note">>, <<"Accept", "Note">>, <<"Delete", "Follow">>}}

Messages ==
    NoteMessages \cup RelationMessages \cup AnnounceMessages \cup UpdateMessages
    \cup DeleteNoteFixtures \cup DeleteProfileMessages
    \cup MismatchedMessages \cup UnmatchedMessages

NoMessage == Message("", "", NoModel, NoAccount, NoAccount)

(***************************************************************************)
(* The dispatcher: each worker of the pool takes a message and runs        *)
(* ProcessFromClientAPI on it, one collaborator call at a time.            *)
(***************************************************************************)
Executed(step, ok) == [op |-> step.op, arg |-> step.arg, ok |-> ok]

Plan(w) == ProcessFromClientAPI(clientMsg[w]).steps

\* A worker takes a message: the payload is cast to the model type of the
\* branch, and a branch with nothing to do returns at once.
Receive(w, msg) ==
    /\ result[w] = "idle"
    /\ clientMsg' = [clientMsg EXCEPT ![w] = msg]
    /\ payload' = [payload EXCEPT ![w] = msg.GTSModel]
    /\ calls' = [calls EXCEPT ![w] = << >>]
    /\ result' = [result EXCEPT ![w] =
          IF ProcessFromClientAPI(msg).mismatch THEN "error"
          ELSE IF ProcessFromClientAPI(msg).steps = << >> THEN "ok"
          ELSE "running"]
    /\ UNCHANGED <<fediVars, dbVars>>

\* The next call of the dispatch returns without error.
CallReturns(w) ==
    /\ result[w] = "running"
    /\ LET step == Plan(w)[Len(calls[w]) + 1]
       IN  /\ calls' = [calls EXCEPT ![w] = Append(@, Executed(step, TRUE))]
           /\ payload' = [payload EXCEPT ![w] = IF step.mutates THEN step.set ELSE @]
           /\ result' = [result EXCEPT ![w] =
                 IF Len(calls[w]) + 1 = Len(Plan(w)) THEN "ok" ELSE "running"]
    /\ UNCHANGED <<clientMsg, fediVars, dbVars>>

\* The next call of the dispatch returns an error, which the dispatch returns.
CallFails(w) ==
    /\ result[w] = "running"
    /\ LET step == Plan(w)[Len(calls[w]) + 1]
       IN  /\ step.fallible
           /\ calls' = [calls EXCEPT ![w] = Append(@, Executed(step, FALSE))]
           /\ result' = [result EXCEPT ![w] = "error"]
    /\ UNCHANGED <<clientMsg, payload, fediVars, dbVars>>

DispatchIdle ==
    /\ clientMsg = [w \in Workers |-> NoMessage]
    /\ payload = [w \in Workers |-> NoModel]
    /\ calls = [w \in Workers |-> << >>]
    /\ result = [w \in Workers |-> "idle"]

(***************************************************************************)
(* The inbound data endpoints.                                             *)
(*                                                                         *)
(* A request names a local user, is signed by a remote actor, and is       *)
(* served by a task of its own.  What the collaborators answer (the        *)
(* signature check, the storage, the visibility filter, the converter) is  *)
(* chosen by the environment when the handler asks.                        *)
(***************************************************************************)
Tasks == {"t1", "t2"}
Usernames == {"alice", "bob", "nobody"}
Requesters == {"remote1"}

\* p.db.GetLocalAccountByUsername: the account ID, or NoAccount for an error.
GetLocalAccountByUsername(username) ==
    CASE username = "alice" -> "local1"
      [] username = "bob" -> "local2"
      [] OTHER -> NoAccount

\* p.db.IsBlocked
IsBlocked(account1, account2, eitherDirection) ==
    \/ <<account1, account2>> \in blocks
    \/ eitherDirection /\ <<account2, account1>> \in blocks

\* The status table: one status, "s1", written by local1.
StatusOwner(statusID) == IF statusID = "s1" THEN "local1" ELSE NoAccount

\* The query of a request for the replies of a status: the arguments page,
\* onlyOtherAccounts and minID, and the value of only_other_accounts in
\* requestURL ("" when the parameter is absent).
Query(page, onlyOtherAccounts, only_other_accounts, minID) ==
    [page |-> page, onlyOtherAccounts |-> onlyOtherAccounts,
     only_other_accounts |-> only_other_accounts, minID |-> minID]

NoQuery == Query(FALSE, FALSE, "", "")

\* only_other_accounts as it is written in a URL, with the flag parsed from it.
Filters == {<<"", FALSE>>, <<"true", TRUE>>, <<"false", FALSE>>}

Queries ==
    {Query(FALSE, f[2], f[1], "") : f \in Filters \ {<<"false", FALSE>>}}
    \cup
    {Query(TRUE, FALSE, "", minID) : minID \in {"", "r1"}}
    \cup
    {Query(TRUE, FALSE, "false", ""), Query(TRUE, FALSE, "false", "r1"),
     Query(TRUE, TRUE, "true", "r1")}

Req(endpoint, username, path, statusID, requester) ==
    [endpoint |-> endpoint, username |-> username, path |-> path,
     statusID |-> statusID, requester |-> requester, query |-> NoQuery]

\* A stored reply, with what p.filter.StatusVisible answers about it for the
\* owner of the status replied to and for the requesting account.
Reply(id, author, visibility, toOwner, toRequester) ==
    [ID |-> id, AccountID |-> author, Visibility |-> visibility,
     URI |-> StatusURI(id),
     visibleToStatusOwner |-> toOwner, visibleToRequester |-> toRequester]

\* The replies to status "s1", in the order of their IDs: one by its author,
\* one by somebody else, then replies that fail one test each, the last of
\* them with a URI that does not parse.
Children ==
    << Reply("r1", "local1", "public", "yes", "yes"),
       Reply("r2", "remote2", "unlocked", "yes", "yes"),
       Reply("r3", "remote2", "followers_only", "yes", "yes"),
       Reply("r4", "remote2", "direct", "yes", "yes"),
       Reply("r5", "remote2", "public", "no", "yes"),
       Reply("r6", "remote2", "public", "yes", "no"),
       Reply("r7", "remote2", "public", "error", "yes"),
       Reply("r8", "remote2", "unlocked", "yes", "error"),
       Reply("r9", "remote2", "public", "yes", "yes") >>

\* p.db.GetStatusChildren(s, onlyDirect = true, minID): the immediate
\* children whose ID is above minID.
GetStatusChildren(statusID, minID) ==
    LET from == IF minID = "" THEN 1
                ELSE 1 + CHOOSE i \in 1..Len(Children) : Children[i].ID = minID
    IN  IF statusID = "s1"
        THEN {Children[i] : i \in from..Len(Children)}
        ELSE {}

Requests ==
    {Req("user", u, path, "", r) :
        u \in Usernames, path \in {"user", "publickey", "other"}, r \in Requesters}
    \cup
    {Req(e, u, "", "", r) :
        e \in {"followers", "following"}, u \in Usernames, r \in Requesters}
    \cup
    {Req(e, u, "", sid, r) :
        e \in {"status", "replies"}, u \in {"alice", "nobody"}, sid \in {"s1", "missing"},
        r \in Requesters}
    \cup
    {Req("status", "bob", "", "s1", r) : r \in Requesters}

\* Requests for the replies of a status, with their queries.
RepliesRequests ==
    {[Req("replies", "alice", "", "s1", r) EXCEPT !.query = q] :
        r \in Requesters, q \in Queries}
    \cup
    {Req("replies", u, "", "missing", r) : u \in {"alice", "nobody"}, r \in Requesters}

NoRequest == Req("none", "", "", "", NoAccount)

\* Mutant of Scenario: any request for a page is answered with items.
Scenario_AnyPage(query) ==
    IF ~query.page THEN 1 ELSE 3

\* "now there are three scenarios"
Scenario(query) ==
    IF ~query.page THEN 1
    ELSE IF query.only_other_accounts = "" THEN 2
    ELSE 3

\* What the collaborators answer during one request: the signature check
\* and the converter before the requesting account is resolved; the
\* storage, the visibility filter and the converter after.
EntryEnvs ==
    [auth : {"ok", "unauthenticated", "error"},
     buildErr : BOOLEAN]

Envs ==
    [blockErr : BOOLEAN,
     visible : {"yes", "no", "error"},
     buildErr : BOOLEAN,
     childrenErr : BOOLEAN]      \* GetStatusChildren fails

\* The answers a request can meet: only the replies endpoint asks for children.
EnvsOf(req) ==
    IF req.endpoint = "replies" /\ Scenario(req.query) = 3
    THEN Envs
    ELSE {env \in Envs : ~env.childrenErr}

\* gtserror.WithCode: the kind of the error, or data.
Respond(kind) == [kind |-> kind, body |-> "none", first |-> FALSE, items |-> {}]
Data(body) == [kind |-> "data", body |-> body, first |-> FALSE, items |-> {}]
NoResponse == [kind |-> "none", body |-> "none", first |-> FALSE, items |-> {}]
\* An error of the status endpoints, with the call it reports.
Because(kind, call) == [Respond(kind) EXCEPT !.body = call]

\* What a handler has done so far.
NoTrace ==
    [inFlight |-> FALSE,         \* a handshake for the pair was in flight on arrival
     authenticated |-> FALSE,    \* AuthenticateFederatedRequest succeeded
     sawHandshake |-> FALSE,     \* Handshaking answered true
     resolved |-> FALSE,         \* GetRemoteAccount was called
     waited |-> FALSE,           \* GetRemoteAccount found a dereference in flight
     fetches |-> 0,              \* network dereferences this task has issued
     blockChecked |-> FALSE,     \* IsBlocked was called
     blocked |-> FALSE,          \* and answered true
     children |-> FALSE,         \* GetStatusChildren was called
     account |-> NoAccount]      \* the requesting account obtained

(***************************************************************************)
(* The handshake tracker of the federator.                                 *)
(***************************************************************************)
Handshaking(username, requester) == <<username, requester>> \in handshakes
Begin(hs, username, requester) == hs \cup {<<username, requester>>}
\* Mutant of End: the entry is left in the registry.
End_Leaks(hs, username, requester) == hs

End(hs, username, requester) == hs \ {<<username, requester>>}

(***************************************************************************)
(* The handlers, in three parts: up to the resolution of the requesting    *)
(* account; the block check; the building of the answer.                   *)
(***************************************************************************)
Answer(resp, tr) == [next |-> "respond", response |-> resp, trace |-> tr]
Resolve(tr) == [next |-> "resolve", response |-> NoResponse, trace |-> tr]

BuildPerson(env) ==
    IF env.buildErr THEN Respond("InternalError") ELSE Data("person")

BuildMinimalPerson(env) ==
    IF env.buildErr THEN Respond("InternalError") ELSE Data("minimalPerson")

BuildCollection(which, env) ==
    IF env.buildErr THEN Respond("InternalError") ELSE Data(which)

\* Mutant of BuildStatus: a status the requester may not see is refused.
BuildStatus_RefusesInvisible(req, requestedAccount, env, body) ==
    IF StatusOwner(req.statusID) # requestedAccount THEN Because("NotFound", "GetWhere")
    ELSE IF env.visible = "error" THEN Because("InternalError", "StatusVisible")
    ELSE IF env.visible = "no" THEN Because("NotAuthorized", "not visible")
    ELSE IF env.buildErr THEN Respond("InternalError")
    ELSE Data(body)

\* From "get the status out of the database here" to the return.
BuildStatus(req, requestedAccount, env, body) ==
    IF StatusOwner(req.statusID) # requestedAccount THEN Because("NotFound", "GetWhere")
    ELSE IF env.visible = "error" THEN Because("InternalError", "StatusVisible")
    ELSE IF env.visible = "no" THEN Because("NotFound", "not visible")
    ELSE IF env.buildErr THEN Respond("InternalError")
    ELSE Data(body)

\* Mutant of GetFediUser: the public-key path serves the full profile.
GetFediUser_KeyPathServesPerson(req, handshaking, env) ==
    LET requestedAccount == GetLocalAccountByUsername(req.username)
    IN  IF requestedAccount = NoAccount THEN Answer(Respond("NotFound"), NoTrace)
        ELSE IF req.path = "publickey" THEN Answer(BuildPerson(env), NoTrace)
        ELSE IF req.path = "user" THEN
            IF env.auth # "ok" THEN Answer(Respond("NotAuthorized"), NoTrace)
            ELSE IF handshaking
                 THEN Answer(BuildPerson(env),
                             [NoTrace EXCEPT !.authenticated = TRUE, !.sawHandshake = TRUE])
                 ELSE Resolve([NoTrace EXCEPT !.authenticated = TRUE])
        ELSE Answer(Respond("BadRequest"), NoTrace)

\* Mutant of GetFediUser: the handshake tracker is not consulted.
GetFediUser_IgnoresHandshake(req, handshaking, env) ==
    LET requestedAccount == GetLocalAccountByUsername(req.username)
    IN  IF requestedAccount = NoAccount THEN Answer(Respond("NotFound"), NoTrace)
        ELSE IF req.path = "publickey" THEN Answer(BuildMinimalPerson(env), NoTrace)
        ELSE IF req.path = "user" THEN
            IF env.auth # "ok" THEN Answer(Respond("NotAuthorized"), NoTrace)
            ELSE Resolve([NoTrace EXCEPT !.authenticated = TRUE])
        ELSE Answer(Respond("BadRequest"), NoTrace)

\* GetFediUser up to the call of GetRemoteAccount.
GetFediUser(req, handshaking, env) ==
    LET requestedAccount == GetLocalAccountByUsername(req.username)
    IN  IF requestedAccount = NoAccount THEN Answer(Respond("NotFound"), NoTrace)
        ELSE IF req.path = "publickey" THEN Answer(BuildMinimalPerson(env), NoTrace)
        ELSE IF req.path = "user" THEN
            IF env.auth # "ok" THEN Answer(Respond("NotAuthorized"), NoTrace)
            ELSE IF handshaking
                 THEN Answer(BuildPerson(env),
                             [NoTrace EXCEPT !.authenticated = TRUE, !.sawHandshake = TRUE])
                 ELSE Resolve([NoTrace EXCEPT !.authenticated = TRUE])
        ELSE Answer(Respond("BadRequest"), NoTrace)

\* Mutant of GetFediAuthenticated: the signature is checked before the
\* requested account is looked up.
GetFediAuthenticated_AuthenticatesFirst(req, env) ==
    LET requestedAccount == GetLocalAccountByUsername(req.username)
    IN  IF env.auth # "ok" THEN Answer(Respond("NotAuthorized"), NoTrace)
        ELSE IF requestedAccount = NoAccount THEN Answer(Respond("NotFound"), NoTrace)
        ELSE Resolve([NoTrace EXCEPT !.authenticated = TRUE])

\* Mutant of GetFediAuthenticated: an error of the signature check is
\* reported as an internal error.
GetFediAuthenticated_ReportsError(req, env) ==
    LET requestedAccount == GetLocalAccountByUsername(req.username)
    IN  IF requestedAccount = NoAccount THEN Answer(Respond("NotFound"), NoTrace)
        ELSE IF env.auth = "error" THEN Answer(Respond("InternalError"), NoTrace)
        ELSE IF env.auth # "ok" THEN Answer(Respond("NotAuthorized"), NoTrace)
        ELSE Resolve([NoTrace EXCEPT !.authenticated = TRUE])

\* GetFediFollowers, GetFediFollowing, GetFediStatus and GetFediStatusReplies
\* up to the call of GetRemoteAccount.
GetFediAuthenticated(req, env) ==
    LET requestedAccount == GetLocalAccountByUsername(req.username)
    IN  IF requestedAccount = NoAccount THEN Answer(Respond("NotFound"), NoTrace)
        ELSE IF env.auth # "ok" THEN Answer(Respond("NotAuthorized"), NoTrace)
        ELSE Resolve([NoTrace EXCEPT !.authenticated = TRUE])

Entry(req, handshaking, env) ==
    IF req.endpoint = "user" THEN GetFediUser(req, handshaking, env)
    ELSE GetFediAuthenticated(req, env)

\* What each handler does with the account GetRemoteAccount returned.
GetFediUserAuthorized(req, blocked, env) ==
    IF env.blockErr THEN Respond("InternalError")
    ELSE IF blocked THEN Respond("NotAuthorized")
    ELSE BuildPerson(env)

\* Mutant of GetFediFollowersAuthorized: the error of the block check is
\* dropped and the collection is built.
GetFediFollowersAuthorized_IgnoresBlockError(req, blocked, env) ==
    IF env.blockErr THEN BuildCollection("followers", env)
    ELSE IF blocked THEN Respond("NotAuthorized")
    ELSE BuildCollection("followers", env)

GetFediFollowersAuthorized(req, blocked, env) ==
    IF env.blockErr THEN Because("InternalError", "IsBlocked")
    ELSE IF blocked THEN Respond("NotAuthorized")
    ELSE BuildCollection("followers", env)

GetFediFollowingAuthorized(req, blocked, env) ==
    IF env.blockErr THEN Because("InternalError", "IsBlocked")
    ELSE IF blocked THEN Respond("NotAuthorized")
    ELSE BuildCollection("following", env)

\* Mutant of GetFediStatusAuthorized: a block is answered like a missing status.
GetFediStatusAuthorized_HidesBlock(req, blocked, env) ==
    IF env.blockErr THEN Because("InternalError", "IsBlocked")
    ELSE IF blocked THEN Respond("NotFound")
    ELSE BuildStatus(req, GetLocalAccountByUsername(req.username), env, "note")

GetFediStatusAuthorized(req, blocked, env) ==
    IF env.blockErr THEN Because("InternalError", "IsBlocked")
    ELSE IF blocked THEN Respond("NotAuthorized")
    ELSE BuildStatus(req, GetLocalAccountByUsername(req.username), env, "note")

\* tc.StatusToASRepliesCollection: the collection of the replies of a
\* status, which holds no items and links to its first page, and that first
\* page, which holds no items either.
StatusToASRepliesCollection ==
    [Data("collection") EXCEPT !.first = TRUE]

GetActivityStreamsFirst == Data("collectionPage")

\* tc.StatusURIsToASRepliesPage
StatusURIsToASRepliesPage(replyURIs) ==
    [Data("collectionPage") EXCEPT !.items = replyURIs]

\* Mutant of ReplyURIs: what the status owner may see is not asked.
ReplyURIs_SkipsOwner(replies, query, requestedAccount, env) ==
    {r.ID : r \in {c \in replies :
        /\ c.Visibility \in {"public", "unlocked"}
        /\ ~(query.onlyOtherAccounts /\ c.AccountID = requestedAccount)
        /\ c.visibleToRequester = "yes"
        /\ Parses(c.URI)}}

\* Mutant of ReplyURIs: a reply is skipped only when the filter answers
\* that it is not visible, so an error of the filter lets it through.
ReplyURIs_TrustsOnError(replies, query, requestedAccount, env) ==
    {r.ID : r \in {c \in replies :
        /\ c.Visibility \in {"public", "unlocked"}
        /\ ~(query.onlyOtherAccounts /\ c.AccountID = requestedAccount)
        /\ c.visibleToStatusOwner # "no"
        /\ c.visibleToRequester # "no"
        /\ Parses(c.URI)}}

\* "filter children and extract URIs": the keys of replyURIs.
ReplyURIs(replies, query, requestedAccount, env) ==
    {r.ID : r \in {c \in replies :
        /\ c.Visibility \in {"public", "unlocked"}
        /\ ~(query.onlyOtherAccounts /\ c.AccountID = requestedAccount)
        /\ c.visibleToStatusOwner = "yes"
        /\ c.visibleToRequester = "yes"
        /\ Parses(c.URI)}}

\* GetFediStatusReplies from "get the status out of the database here" to
\* the return: the answer, and whether the children were asked for.
BuildReplies(req, requestedAccount, env) ==
    LET early(resp) == [response |-> resp, children |-> FALSE]
        scenario == Scenario(req.query)
    IN  IF StatusOwner(req.statusID) # requestedAccount
        THEN early(Because("NotFound", "GetWhere"))
        ELSE IF env.visible = "error" THEN early(Because("InternalError", "StatusVisible"))
        ELSE IF env.visible = "no" THEN early(Because("NotFound", "not visible"))
        ELSE IF scenario = 1 THEN
            early(IF env.buildErr THEN Respond("InternalError")
                  ELSE StatusToASRepliesCollection)
        ELSE IF scenario = 2 THEN
            early(IF env.buildErr THEN Respond("InternalError")
                  ELSE GetActivityStreamsFirst)
        ELSE [children |-> TRUE,
              response |->
                  IF env.childrenErr THEN Because("InternalError", "GetStatusChildren")
                  ELSE IF env.buildErr
                  THEN Because("InternalError", "StatusURIsToASRepliesPage")
                  ELSE StatusURIsToASRepliesPage(
                           ReplyURIs(GetStatusChildren(req.statusID, req.query.minID),
                                     req.query, requestedAccount, env))]

GetFediStatusRepliesAuthorized(req, blocked, env) ==
    IF env.blockErr
    THEN [response |-> Because("InternalError", "IsBlocked"), children |-> FALSE]
    ELSE IF blocked THEN [response |-> Respond("NotAuthorized"), children |-> FALSE]
    ELSE BuildReplies(req, GetLocalAccountByUsername(req.username), env)

Authorized(req, tr, requestingAccount, env) ==
    LET blocked == IsBlocked(GetLocalAccountByUsername(req.username), requestingAccount, TRUE)
        done == [tr EXCEPT !.account = requestingAccount,
                           !.blockChecked = TRUE,
                           !.blocked = ~env.blockErr /\ blocked]
        replies == GetFediStatusRepliesAuthorized(req, blocked, env)
    IN  IF req.endpoint = "replies"
        THEN Answer(replies.response, [done EXCEPT !.children = replies.children])
        ELSE Answer(CASE req.endpoint = "user" -> GetFediUserAuthorized(req, blocked, env)
                      [] req.endpoint = "followers" ->
                             GetFediFollowersAuthorized(req, blocked, env)
                      [] req.endpoint = "following" ->
                             GetFediFollowingAuthorized(req, blocked, env)
                      [] req.endpoint = "status" ->
                             GetFediStatusAuthorized(req, blocked, env),
                    done)

(***************************************************************************)
(* The tasks.                                                              *)
(***************************************************************************)
Returns(t, answer) ==
    /\ rpc' = [rpc EXCEPT ![t] = "done"]
    /\ response' = [response EXCEPT ![t] = answer.response]
    /\ trace' = [trace EXCEPT ![t] = answer.trace]

\* federator.GetRemoteAccount(username, requester, refresh = false): the
\* stored account when there is one; otherwise a dereference over the
\* network under a handshake entry, unless one is already in flight for the
\* pair, which this caller then waits for.
GetRemoteAccount(t, req, tr) ==
    LET called == [tr EXCEPT !.resolved = TRUE]
    IN  IF req.requester \in knownRemote
        THEN /\ \E env \in EnvsOf(req) :
                  Returns(t, Authorized(req, called, req.requester, env))
             /\ UNCHANGED <<handshakes, knownRemote>>
        ELSE IF Handshaking(req.username, req.requester)
        THEN /\ rpc' = [rpc EXCEPT ![t] = "wait"]
             /\ trace' = [trace EXCEPT ![t] = [called EXCEPT !.waited = TRUE]]
             /\ UNCHANGED <<handshakes, knownRemote, response>>
        ELSE /\ handshakes' = Begin(handshakes, req.username, req.requester)
             /\ rpc' = [rpc EXCEPT ![t] = "deref"]
             /\ trace' = [trace EXCEPT ![t] = [called EXCEPT !.fetches = @ + 1]]
             /\ UNCHANGED <<knownRemote, response>>

\* A request arrives and its handler runs up to its answer, or up to the
\* point where it waits for the network.
Handle(t, req) ==
    /\ rpc[t] = "idle"
    /\ request' = [request EXCEPT ![t] = req]
    /\ \E env \in EntryEnvs :
          LET handshaking == Handshaking(req.username, req.requester)
              entry == [Entry(req, handshaking, env) EXCEPT !.trace.inFlight = handshaking]
          IN  IF entry.next = "respond"
              THEN Returns(t, entry) /\ UNCHANGED <<handshakes, knownRemote>>
              ELSE GetRemoteAccount(t, req, entry.trace)
    /\ UNCHANGED <<blocks, dispatchVars, dbVars>>

\* The dereference a task is waiting for ends: the account was fetched and
\* stored, or the fetch failed, or the request's context was canceled.
FetchReturns(t, outcome) ==
    /\ rpc[t] = "deref"
    /\ handshakes' = End(handshakes, request[t].username, request[t].requester)
    /\ IF outcome = "ok"
       THEN /\ knownRemote' = knownRemote \cup {request[t].requester}
            /\ \E env \in EnvsOf(request[t]) :
                  Returns(t, Authorized(request[t], trace[t], request[t].requester, env))
       ELSE /\ Returns(t, Answer(Respond("NotAuthorized"), trace[t]))
            /\ UNCHANGED knownRemote
    /\ UNCHANGED <<request, blocks, dispatchVars, dbVars>>

\* The dereference a task found in flight has ended: the task asks again.
WaitOver(t) ==
    /\ rpc[t] = "wait"
    /\ ~Handshaking(request[t].username, request[t].requester)
    /\ GetRemoteAccount(t, request[t], trace[t])
    /\ UNCHANGED <<request, blocks, dispatchVars, dbVars>>

\* Another part of the server refreshes a known remote account on behalf
\* of a local user (GetRemoteAccount with refresh = true).
BeginRefresh(username, requester) ==
    /\ GetLocalAccountByUsername(username) # NoAccount
    /\ requester \in knownRemote
    /\ ~Handshaking(username, requester)
    /\ handshakes' = Begin(handshakes, username, requester)
    /\ UNCHANGED <<knownRemote, blocks, request, rpc, response, trace, dispatchVars, dbVars>>

Dereferencing(username, requester) ==
    \E t \in Tasks :
        /\ rpc[t] = "deref"
        /\ request[t].username = username
        /\ request[t].requester = requester

EndRefresh(username, requester) ==
    /\ Handshaking(username, requester)
    /\ ~Dereferencing(username, requester)
    /\ handshakes' = End(handshakes, username, requester)
    /\ UNCHANGED <<knownRemote, blocks, request, rpc, response, trace, dispatchVars, dbVars>>

FediIdle ==
    /\ handshakes = {}
    /\ request = [t \in Tasks |-> NoRequest]
    /\ rpc = [t \in Tasks |-> "idle"]
    /\ response = [t \in Tasks |-> NoResponse]
    /\ trace = [t \in Tasks |-> NoTrace]

(***************************************************************************)
(* federatingDB.Followers: the followers collection of an actor.           *)
(*                                                                         *)
(* A follow as GetAccountFollowedBy returns it: the ID of the following    *)
(* account, the account itself when the storage attached it, and what      *)
(* GetAccountByID answers for that ID otherwise.  The URI stored for       *)
(* account "remote9" does not parse.                                       *)
(***************************************************************************)
FollowingAccounts == {"remote1", "local2", "remote9"}

Follow(accountID, populated, lookup) ==
    [AccountID |-> accountID,
     Account |-> IF populated THEN accountID ELSE NoAccount,
     lookup |-> lookup]

Follows ==
    {Follow(a, TRUE, "unused") : a \in FollowingAccounts}
    \cup
    {Follow(a, FALSE, lookup) :
        a \in FollowingAccounts, lookup \in {"ok", "ErrNoEntries", "error"}}

FollowLists == UNION {[1..n -> Follows] : n \in 0..MaxFollowers}


NoFollowersCall ==
    [actorIRI |-> << >>, acctFollowers |-> << >>, next |-> 0,
     items |-> << >>, collection |-> "nil", result |-> "idle"]

FollowersIdle == followersCall = NoFollowersCall

IsUserPath(iri) == Len(iri) = 2 /\ iri[1] = "users"
IsFollowersPath(iri) == Len(iri) = 3 /\ iri[1] = "users" /\ iri[3] = "followers"

\* Mutant of Iterate: a follower without account record fails the call.
Iterate_FailsOnMissing(follow, items) ==
    LET account == IF follow.Account # NoAccount THEN follow.Account
                   ELSE IF follow.lookup = "ok" THEN follow.AccountID
                   ELSE NoAccount
    IN  IF follow.Account = NoAccount /\ follow.lookup # "ok"
        THEN [items |-> items, err |-> TRUE]
        ELSE IF ~Parses(URI(account)) THEN [items |-> items, err |-> TRUE]
        ELSE [items |-> Append(items, URI(account)), err |-> FALSE]

\* The body of "for _, follow := range acctFollowers".
Iterate(follow, items) ==
    LET account == IF follow.Account # NoAccount THEN follow.Account
                   ELSE IF follow.lookup = "ok" THEN follow.AccountID
                   ELSE NoAccount
    IN  IF follow.Account = NoAccount /\ follow.lookup = "ErrNoEntries"
        THEN [items |-> items, err |-> FALSE]
        ELSE IF follow.Account = NoAccount /\ follow.lookup = "error"
        THEN [items |-> items, err |-> TRUE]
        ELSE IF ~Parses(URI(account)) THEN [items |-> items, err |-> TRUE]
        ELSE [items |-> Append(items, URI(account)), err |-> FALSE]

\* Followers up to the loop: the account of the actor and its follows are
\* looked up; either lookup may fail.
Followers(actorIRI, acctErr, followedByErr, acctFollowers) ==
    /\ followersCall.result = "idle"
    /\ followersCall' =
          IF \/ ~IsUserPath(actorIRI) /\ ~IsFollowersPath(actorIRI)
             \/ acctErr
             \/ followedByErr
          THEN [NoFollowersCall EXCEPT !.actorIRI = actorIRI, !.result = "error"]
          ELSE [NoFollowersCall EXCEPT !.actorIRI = actorIRI,
                                       !.acctFollowers = acctFollowers,
                                       !.next = 1,
                                       !.result = "running"]
    /\ UNCHANGED <<dispatchVars, fediVars>>

\* One turn of the loop.
FollowersLoop ==
    /\ followersCall.result = "running"
    /\ followersCall.next <= Len(followersCall.acctFollowers)
    /\ LET turn == Iterate(followersCall.acctFollowers[followersCall.next],
                           followersCall.items)
       IN  followersCall' =
              IF turn.err
              THEN [followersCall EXCEPT !.result = "error"]
              ELSE [followersCall EXCEPT !.items = turn.items, !.next = @ + 1]
    /\ UNCHANGED <<dispatchVars, fediVars>>

\* followers.SetActivityStreamsItems(items); return
FollowersReturns ==
    /\ followersCall.result = "running"
    /\ followersCall.next > Len(followersCall.acctFollowers)
    /\ followersCall' = [followersCall EXCEPT !.collection = followersCall.items,
                                              !.result = "ok"]
    /\ UNCHANGED <<dispatchVars, fediVars>>

\* A block record names two stored accounts.
BlockTables == {{}, {<<"local1", "remote1">>}, {<<"remote1", "local1">>}}

Init ==
    /\ DispatchIdle
    /\ FediIdle
    /\ FollowersIdle
    /\ knownRemote = {}
    /\ blocks = {}

Next ==
    \E w \in Workers :
        \/ \E msg \in Messages : Receive(w, msg)
        \/ CallReturns(w)
        \/ CallFails(w)

Spec == Init /\ [][Next]_vars

InitFedi ==
    /\ DispatchIdle
    /\ FediIdle
    /\ FollowersIdle
    /\ knownRemote \in SUBSET Requesters
    /\ blocks \in BlockTables
    /\ \A b \in blocks : {b[1], b[2]} \cap RemoteAccounts \subseteq knownRemote

NextFedi ==
    \/ \E t \in Tasks :
          \/ \E req \in Requests : Handle(t, req)
          \/ \E outcome \in {"ok", "error", "canceled"} : FetchReturns(t, outcome)
          \/ WaitOver(t)
    \/ \E u \in Usernames, r \in Requesters :
          \/ BeginRefresh(u, r)
          \/ EndRefresh(u, r)

SpecFedi == InitFedi /\ [][NextFedi]_vars

\* The inbound endpoints under requests for replies only.
NextReplies ==
    \/ \E t \in Tasks :
          \/ \E req \in RepliesRequests : Handle(t, req)
          \/ \E outcome \in {"ok", "error", "canceled"} : FetchReturns(t, outcome)
          \/ WaitOver(t)
    \/ \E u \in Usernames, r \in Requesters :
          \/ BeginRefresh(u, r)
          \/ EndRefresh(u, r)

SpecReplies == InitFedi /\ [][NextReplies]_vars

\* The inbound endpoints under requests for a status or its replies: a
\* status of the requested account, a status nobody has, a status of another
\* account.
StatusRequests ==
    {Req(e, u, "", sid, r) :
        e \in {"status", "replies"}, u \in {"alice"}, sid \in {"s1", "missing"},
        r \in Requesters}
    \cup
    {Req(e, "bob", "", "s1", r) : e \in {"status", "replies"}, r \in Requesters}

NextStatus ==
    \/ \E t \in Tasks :
          \/ \E req \in StatusRequests : Handle(t, req)
          \/ \E outcome \in {"ok", "error", "canceled"} : FetchReturns(t, outcome)
          \/ WaitOver(t)
    \/ \E u \in Usernames, r \in Requesters :
          \/ BeginRefresh(u, r)
          \/ EndRefresh(u, r)

SpecStatus == InitFedi /\ [][NextStatus]_vars

\* Calls of Followers, one at a time (the library holds a lock).
NextFollowers ==
    \/ /\ FollowersIdle
       /\ \E a \in {"local1"}, acctErr, followedByErr \in BOOLEAN,
             acctFollowers \in FollowLists :
             \E actorIRI \in {URI(a), FollowersURI(a), OutboxURI(a)} :
                 Followers(actorIRI, acctErr, followedByErr, acctFollowers)
    \/ FollowersLoop
    \/ FollowersReturns

SpecFollowers == Init /\ [][NextFollowers]_vars

\* A dereference over the network ends: it has a deadline.
FairSpecFedi ==
    /\ SpecFedi
    /\ \A t \in Tasks : WF_vars(\E outcome \in {"ok", "error", "canceled"} :
                                   FetchReturns(t, outcome))
    /\ \A t \in Tasks : WF_vars(WaitOver(t))
    /\ \A u \in Usernames, r \in Requesters : WF_vars(EndRefresh(u, r))

(***************************************************************************)
(* Vocabulary of the properties of the dispatcher.                         *)
(***************************************************************************)
ConverterOps ==
    {"StatusToAS", "FollowRequestToFollow", "FollowToAS", "FaveToAS", "BoostToAS",
     "BlockToAS", "AccountToAS", "WrapPersonInUpdate"}

\* Calls that read or write nothing local: conversions, lookups, delivery.
FederationOps == ConverterOps \cup {"Send", "GetAccountByID", "assign"}

Dispatched(w) == result[w] # "idle"
VerbObj(w) == <<clientMsg[w].APActivityType, clientMsg[w].APObjectType>>
BothLocal(w) ==
    Domain(clientMsg[w].OriginAccount) = "" /\ Domain(clientMsg[w].TargetAccount) = ""
SendIndexes(w) == {i \in 1..Len(calls[w]) : calls[w][i].op = "Send"}
NoFederation(w) ==
    \A i \in 1..Len(calls[w]) : calls[w][i].op \notin ConverterOps \cup {"Send"}
IsLocalEffect(c) == c.op \notin FederationOps
\* The local side effects a dispatch has made before its i-th call.
LocalEffectsBefore(w, i) == SelectSeq(SubSeq(calls[w], 1, i - 1), IsLocalEffect)
OpsOf(s) == [k \in 1..Len(s) |-> s[k].op]
ArgsOf(s) == [k \in 1..Len(s) |-> s[k].arg]
AllOk(s) == \A k \in 1..Len(s) : s[k].ok

GuardedByDomains ==
    {<<"Create", "Follow">>, <<"Create", "Like">>, <<"Accept", "Follow">>,
     <<"Undo", "Follow">>, <<"Undo", "Like">>}

UnguardedByTarget ==
    {<<"Create", "Announce">>, <<"Undo", "Announce">>,
     <<"Update", "Profile">>, <<"Update", "Person">>}

RequiredLocalEffects(vo) ==
    CASE vo = <<"Create", "Note">> -> << "timelineStatus", "notifyStatus" >>
      [] vo = <<"Create", "Follow">> -> << "notifyFollowRequest" >>
      [] vo = <<"Create", "Like">> -> << "notifyFave" >>
      [] vo = <<"Accept", "Follow">> -> << "notifyFollow" >>
      [] vo = <<"Create", "Announce">> -> << "timelineStatus", "notifyAnnounce" >>
      [] vo = <<"Create", "Block">> ->
            << "WipeStatusesFromAccountID", "WipeStatusesFromAccountID" >>
      [] vo = <<"Undo", "Announce">> -> << "deleteStatusFromTimelines" >>
      [] OTHER -> << >>

OrderedLocalEffects ==
    {<<"Create", "Note">>, <<"Create", "Follow">>, <<"Create", "Like">>,
     <<"Accept", "Follow">>, <<"Create", "Announce">>, <<"Create", "Block">>,
     <<"Undo", "Announce">>}

C7_LocalEffectsBeforeDelivery ==
    \A w \in Workers : \A i \in SendIndexes(w) :
        VerbObj(w) \in OrderedLocalEffects =>
            LET done == LocalEffectsBefore(w, i)
            IN  /\ OpsOf(done) = RequiredLocalEffects(VerbObj(w))
                /\ AllOk(done)
                /\ VerbObj(w) = <<"Create", "Block">> =>
                      ArgsOf(done) =
                         << <<clientMsg[w].GTSModel.AccountID,
                              clientMsg[w].GTSModel.TargetAccountID>>,
                            <<clientMsg[w].GTSModel.TargetAccountID,
                              clientMsg[w].GTSModel.AccountID>> >>

\* One worker has delivered a Create(Note) while another is in the middle
\* of the local side effects of a Create(Block).
C7_Witness ==
    \E w, v \in Workers :
        /\ w # v
        /\ VerbObj(w) = <<"Create", "Note">>
        /\ SendIndexes(w) # {}
        /\ VerbObj(v) = <<"Create", "Block">>
        /\ result[v] = "running"
        /\ Len(calls[v]) = 1

(***************************************************************************)
(* C8: a Delete(Note) dispatch deletes every attachment of the status,     *)
(* then every mention, then the notifications of the status, then removes  *)
(* the status from the timelines; the federation Delete is sent only when  *)
(* all of these have returned without error, in that order.                *)
(***************************************************************************)
C8_DeleteNoteSequence ==
    \A w \in Workers : \A i \in SendIndexes(w) :
        VerbObj(w) = <<"Delete", "Note">> =>
            LET status == clientMsg[w].GTSModel
                done == LocalEffectsBefore(w, i)
                na == Len(status.AttachmentIDs)
                nm == Len(status.MentionIDs)
            IN  /\ Len(done) = na + nm + 2
                /\ AllOk(done)
                /\ \A k \in 1..na :
                      /\ done[k].op = "mediaProcessor.Delete"
                      /\ done[k].arg = status.AttachmentIDs[k]
                /\ \A k \in 1..nm :
                      /\ done[na + k].op = "db.DeleteByID"
                      /\ done[na + k].arg = status.MentionIDs[k]
                /\ done[na + nm + 1].op = "db.DeleteWhere"
                /\ done[na + nm + 1].arg = status.ID
                /\ done[na + nm + 2].op = "deleteStatusFromTimelines"
                /\ done[na + nm + 2].arg = status.ID
                /\ calls[w][i].arg.activity.type = "Delete"

C8_Witness ==
    \E w \in Workers :
        /\ VerbObj(w) = <<"Delete", "Note">>
        /\ SendIndexes(w) # {}
        /\ Len(clientMsg[w].GTSModel.AttachmentIDs) = MaxAttachments
        /\ Len(clientMsg[w].GTSModel.MentionIDs) = MaxMentions
        /\ result[w] = "ok"

(***************************************************************************)
(* C9: the Delete built for a status has the `to` and `cc` of the Note     *)
(* representation of the status, has that Note as its object, and is sent  *)
(* through the outbox of the status's author (the account with ID          *)
(* status.AccountID).                                                      *)
(***************************************************************************)
C9_DeleteAddressedAsNote ==
    \A w \in Workers : \A i \in SendIndexes(w) :
        VerbObj(w) = <<"Delete", "Note">> =>
            LET status == clientMsg[w].GTSModel
                note == StatusToAS(status)
                sent == calls[w][i].arg
            IN  /\ sent.activity.type = "Delete"
                /\ sent.activity.to = note.to
                /\ sent.activity.cc = note.cc
                /\ sent.activity.object = note
                /\ sent.outbox = OutboxURI(status.AccountID)

(***************************************************************************)
(* C10: a dispatch calls the delivery sink at most once; when that call    *)
(* fails the dispatch returns an error, makes no further call, and the     *)
(* local side effects it had applied stay applied: the record of calls     *)
(* only ever grows, and not at all once the dispatch has returned.         *)
(***************************************************************************)
C10_State ==
    \A w \in Workers :
        /\ Cardinality(SendIndexes(w)) <= 1
        /\ \A i \in SendIndexes(w) :
              /\ i = Len(calls[w])
              /\ ~calls[w][i].ok => result[w] = "error"
              /\ AllOk(SubSeq(calls[w], 1, i - 1))

C10_Step ==
    \A w \in Workers :
        Dispatched(w) =>
            /\ Len(calls'[w]) >= Len(calls[w])
            /\ SubSeq(calls'[w], 1, Len(calls[w])) = calls[w]
            /\ result[w] \in {"ok", "error"} =>
                  calls'[w] = calls[w] /\ result'[w] = result[w]

C10_FailedDeliveryKeepsLocalEffects == [](C10_State) /\ [][C10_Step]_vars

C10_Witness ==
    \E w \in Workers :
        /\ VerbObj(w) = <<"Create", "Note">>
        /\ result[w] = "error"
        /\ \E i \in SendIndexes(w) : ~calls[w][i].ok
        /\ OpsOf(LocalEffectsBefore(w, Len(calls[w]))) = << "timelineStatus", "notifyStatus" >>

(***************************************************************************)
(* Vocabulary of the properties of the inbound endpoints.                  *)
(***************************************************************************)
PairOf(t) == <<request[t].username, request[t].requester>>
Answered(t) == rpc[t] = "done"
Served(t) == Answered(t) /\ response[t].kind = "data"
\* The requests that reveal the data of a local account to an
\* authenticated requester: every endpoint but the public-key path.
Gated(t) ==
    \/ request[t].endpoint \in {"followers", "following", "status", "replies"}
    \/ request[t].endpoint = "user" /\ request[t].path = "user"

(***************************************************************************)
(* C1: a request that reveals the data of a local account (GetFediUser on  *)
(* a user path, GetFediFollowers, GetFediFollowing, GetFediStatus,         *)
(* GetFediStatusReplies) is answered with data only if, within that        *)
(* request, the authentication succeeded and the block check was made and  *)
(* answered false, whatever the state of the handshake tracker.            *)
(***************************************************************************)
C1_DataOnlyAfterAuthAndBlockCheck ==
    \A t \in Tasks : Served(t) /\ Gated(t) =>
        /\ trace[t].authenticated
        /\ trace[t].blockChecked
        /\ ~trace[t].blocked

\* What the missing check lets through: the profile of a local account is
\* served to a requester while a block stands between the two.
C1_ServedAcrossBlock ==
    \E t \in Tasks :
        /\ Served(t) /\ Gated(t)
        /\ IsBlocked(GetLocalAccountByUsername(request[t].username),
                     request[t].requester, TRUE)

(***************************************************************************)
(* C2 (as stated): GetFediStatus answers NotFound to a requester with a    *)
(* block in either direction between it and the author of the status.      *)
(***************************************************************************)
C2_BlockedStatusIsNotFound ==
    \A t \in Tasks :
        Answered(t) /\ request[t].endpoint = "status" /\ trace[t].blocked =>
            response[t].kind = "NotFound"

(***************************************************************************)
(* C2 (amended): GetFediStatus answers NotAuthorized, with no data, to an  *)
(* authenticated requester that the block check finds blocked in either    *)
(* direction; NotFound is the answer for a status that does not exist or   *)
(* is not visible, and is never the answer to a blocked requester.         *)
(***************************************************************************)
C2_BlockedStatusIsNotAuthorized ==
    \A t \in Tasks :
        Answered(t) /\ request[t].endpoint = "status" =>
            /\ trace[t].blocked => response[t] = Respond("NotAuthorized")
            /\ response[t].kind = "NotFound" /\ trace[t].authenticated =>
                  /\ trace[t].blockChecked /\ ~trace[t].blocked
                  /\ ~IsBlocked(GetLocalAccountByUsername(request[t].username),
                                request[t].requester, TRUE)

C2_Witness ==
    \E t \in Tasks :
        /\ Answered(t)
        /\ request[t].endpoint = "status"
        /\ request[t].statusID = "s1"
        /\ request[t].username = "alice"
        /\ <<"remote1", "local1">> \in blocks
        /\ trace[t].blocked
        /\ response[t].kind = "NotAuthorized"

(***************************************************************************)
(* C4 (as stated): a handler that finds a handshake for its pair in flight *)
(* does not call GetRemoteAccount, whichever endpoint it serves.           *)
(***************************************************************************)
C4_HandshakeSkipsDereference ==
    \A t \in Tasks : trace[t].inFlight => ~trace[t].resolved

(***************************************************************************)
(* C4 (amended): only GetFediUser consults the handshake tracker.  On a    *)
(* user path, with a handshake for the pair in flight, it does not call    *)
(* GetRemoteAccount; with none in flight it does.  GetFediFollowers,       *)
(* GetFediFollowing, GetFediStatus and GetFediStatusReplies call           *)
(* GetRemoteAccount for every authenticated request, a handshake in flight *)
(* or not.                                                                 *)
(***************************************************************************)
C4_OnlyUserConsultsHandshake ==
    \A t \in Tasks : rpc[t] # "idle" /\ trace[t].authenticated =>
        IF request[t].endpoint = "user"
        THEN /\ trace[t].sawHandshake = trace[t].inFlight
             /\ trace[t].resolved = ~trace[t].inFlight
        ELSE /\ ~trace[t].sawHandshake
             /\ trace[t].resolved

C4_Witness ==
    \E t, u \in Tasks :
        /\ PairOf(t) = PairOf(u)
        /\ request[t].endpoint = "user"
        /\ trace[t].inFlight /\ trace[t].authenticated /\ ~trace[t].resolved
        /\ request[u].endpoint = "followers"
        /\ trace[u].inFlight /\ trace[u].authenticated /\ trace[u].resolved

(***************************************************************************)
(* C5: among concurrent requests for one pair, at most one dereference is  *)
(* in flight at any instant, a request that finds it in flight issues no   *)
(* fetch while it lasts, and every request that arrived during the         *)
(* dereference of another request for its pair has, once it is answered    *)
(* and the account of the requester is stored, obtained that account.      *)
(***************************************************************************)
C5_OneDereferenceEveryCallerServed ==
    /\ \A t, u \in Tasks :
          rpc[t] = "deref" /\ rpc[u] = "deref" /\ PairOf(t) = PairOf(u) => t = u
    /\ \A t \in Tasks : rpc[t] = "wait" => trace[t].fetches = 0
    /\ \A t \in Tasks :
          /\ Answered(t)
          /\ trace[t].authenticated
          /\ trace[t].inFlight
          /\ \E u \in Tasks \ {t} : PairOf(u) = PairOf(t) /\ trace[u].fetches > 0
          /\ request[t].requester \in knownRemote
          => trace[t].account = request[t].requester

(***************************************************************************)
(* C6: a handshake entry is registered for as long as its dereference      *)
(* lasts and by one dereference only; the step that ends the dereference   *)
(* (fetched, failed or canceled) removes the entry; and every entry is     *)
(* eventually removed.                                                     *)
(***************************************************************************)
C6_Registered ==
    \A t, u \in Tasks :
        rpc[t] = "deref" =>
            /\ PairOf(t) \in handshakes
            /\ rpc[u] = "deref" /\ PairOf(t) = PairOf(u) => t = u

C6_Released ==
    \A t \in Tasks :
        rpc[t] = "deref" /\ rpc'[t] # "deref" =>
            /\ PairOf(t) \in handshakes
            /\ PairOf(t) \notin handshakes'

C6_HandshakeEntriesReleased ==
    /\ []C6_Registered
    /\ [][C6_Released]_vars
    /\ \A p \in {"alice", "bob"} \X Requesters :
          (p \in handshakes) ~> (p \notin handshakes)

\* A dereference has failed or was canceled, and its entry is gone.
C6_Witness ==
    \E t \in Tasks :
        /\ Answered(t)
        /\ trace[t].fetches = 1
        /\ trace[t].account = NoAccount
        /\ response[t].kind = "NotAuthorized"
        /\ PairOf(t) \notin handshakes

(***************************************************************************)
(* The dispatch table: the (verb, object type) pairs the switch has a case *)
(* for, and the model type each case casts the payload to.                 *)
(***************************************************************************)
DeleteProfilePairs == {<<"Delete", "Profile">>, <<"Delete", "Person">>}

DispatchTable ==
    {<<"Create", "Note">>, <<"Create", "Follow">>, <<"Create", "Like">>,
     <<"Create", "Announce">>, <<"Create", "Block">>,
     <<"Update", "Profile">>, <<"Update", "Person">>, <<"Accept", "Follow">>,
     <<"Undo", "Follow">>, <<"Undo", "Block">>, <<"Undo", "Like">>,
     <<"Undo", "Announce">>, <<"Delete", "Note">>}
    \cup DeleteProfilePairs

ExpectedModels(vo) ==
    CASE vo \in {<<"Create", "Note">>, <<"Create", "Announce">>,
                 <<"Undo", "Announce">>, <<"Delete", "Note">>} -> {"Status"}
      [] vo = <<"Create", "Follow">> -> {"FollowRequest"}
      [] vo \in {<<"Accept", "Follow">>, <<"Undo", "Follow">>} -> {"Follow"}
      [] vo \in {<<"Create", "Like">>, <<"Undo", "Like">>} -> {"StatusFave"}
      [] vo \in {<<"Create", "Block">>, <<"Undo", "Block">>} -> {"Block"}
      [] vo \in {<<"Update", "Profile">>, <<"Update", "Person">>} -> {"Account"}
      [] vo \in DeleteProfilePairs -> {"DomainBlock", "Account"}
      [] OTHER -> {}

Mismatched(w) ==
    /\ Dispatched(w)
    /\ VerbObj(w) \in DispatchTable
    /\ clientMsg[w].GTSModel.kind \notin ExpectedModels(VerbObj(w))

NothingDone(w) == calls[w] = << >> /\ payload[w] = clientMsg[w].GTSModel

(***************************************************************************)
(* C11 (as stated): for every entry of the dispatch table, Delete(Profile/ *)
(* Person) included, a payload that is not of the model type the entry     *)
(* requires makes the dispatch return an error with no call made.          *)
(***************************************************************************)
C11_MismatchIsError ==
    \A w \in Workers : Mismatched(w) => result[w] = "error" /\ NothingDone(w)

(***************************************************************************)
(* C11 (amended): every entry but Delete(Profile/Person) casts the payload *)
(* and returns an error, with no call made, when the cast fails.           *)
(* Delete(Profile/Person) makes no such check: a payload that is not a     *)
(* DomainBlock, of whatever type, is the deletion of the target account    *)
(* with the origin account recorded as its origin.                         *)
(***************************************************************************)
C11_CastMismatchIsError ==
    \A w \in Workers : Mismatched(w) =>
        IF VerbObj(w) \in DeleteProfilePairs
        THEN \/ result[w] = "running" /\ NothingDone(w)
             \/ /\ result[w] = (IF calls[w][1].ok THEN "ok" ELSE "error")
                /\ OpsOf(calls[w]) = << "accountProcessor.Delete" >>
                /\ calls[w][1].arg = [account |-> clientMsg[w].TargetAccount,
                                      origin |-> clientMsg[w].OriginAccount]
        ELSE result[w] = "error" /\ NothingDone(w)

C11_Witness ==
    \E w, v \in Workers :
        /\ VerbObj(w) = <<"Create", "Note">>
        /\ Mismatched(w)
        /\ result[w] = "error"
        /\ VerbObj(v) = <<"Delete", "Profile">>
        /\ Mismatched(v)
        /\ result[v] = "ok"

(***************************************************************************)
(* C12: a message whose (verb, object type) pair has no case in the switch *)
(* (an unknown verb, or a known verb with an object type it does not       *)
(* handle) returns no error, makes no call on any collaborator and leaves  *)
(* the payload as it was.                                                  *)
(***************************************************************************)
C12_UnmatchedIsIgnored ==
    \A w \in Workers :
        Dispatched(w) /\ VerbObj(w) \notin DispatchTable =>
            result[w] = "ok" /\ NothingDone(w)

\* An unknown verb and an unhandled object type of a known verb, both
\* dispatched and ignored.
C12_Witness ==
    \E w, v \in Workers :
        /\ VerbObj(w) = <<"Reject", "Follow">>
        /\ result[w] = "ok"
        /\ VerbObj(v) = <<"Update", "Note">>
        /\ result[v] = "ok"

(***************************************************************************)
(* Vocabulary of the envelopes.                                            *)
(***************************************************************************)
\* The Create message of the record a message carries: the follow request
\* of a follow, the record itself otherwise.
CreateOf(msg) ==
    [msg EXCEPT !.APActivityType = "Create",
                !.GTSModel = IF msg.APObjectType = "Follow"
                             THEN [@ EXCEPT !.kind = "FollowRequest"]
                             ELSE @]

SendSteps(msg) ==
    LET steps == ProcessFromClientAPI(msg).steps
    IN  {i \in 1..Len(steps) : steps[i].op = "Send"}

\* The activity the dispatch of a message hands to the delivery sink.
SentBy(msg) ==
    LET steps == ProcessFromClientAPI(msg).steps
    IN  steps[CHOOSE i \in SendSteps(msg) : TRUE].arg.activity

(***************************************************************************)
(* C13: the object of every Undo sent (of a Follow, a Like, a Block, an    *)
(* Announce) is a whole activity of the undone type, with the id, actor    *)
(* and object of the activity that the Create dispatch of the same record  *)
(* sends, and the actor of the Undo is the actor of that wrapped activity. *)
(***************************************************************************)
C13_UndoWrapsRecreatedActivity ==
    \A w \in Workers : \A i \in SendIndexes(w) :
        clientMsg[w].APActivityType = "Undo" =>
            LET undo == calls[w][i].arg.activity
                create == CreateOf(clientMsg[w])
            IN  /\ undo.type = "Undo"
                /\ undo.object.type = clientMsg[w].APObjectType
                /\ SendSteps(create) # {}
                /\ undo.object.id = SentBy(create).id
                /\ undo.object.actor = SentBy(create).actor
                /\ undo.object.object = SentBy(create).object
                /\ undo.actor = undo.object.actor

\* The Undo of a block whose accounts had to be looked up has been sent
\* while another worker has sent the Undo of a follow.
C13_Witness ==
    \E w, v \in Workers :
        /\ VerbObj(w) = <<"Undo", "Block">>
        /\ result[w] = "ok"
        /\ SendIndexes(w) # {}
        /\ clientMsg[w].GTSModel.Account = NoAccount
        /\ VerbObj(v) = <<"Undo", "Follow">>
        /\ SendIndexes(v) # {}

(***************************************************************************)
(* C14: the Accept of a follow has the accepting account (the target of    *)
(* the message) as actor, is addressed to the requester alone (the origin  *)
(* of the message), wraps the Follow recreated from the follow record with *)
(* the requester as actor, the same Follow that the Create dispatch sent,  *)
(* and leaves through the outbox of the accepter.                          *)
(***************************************************************************)
C14_AcceptFromAccepterToRequester ==
    \A w \in Workers : \A i \in SendIndexes(w) :
        VerbObj(w) = <<"Accept", "Follow">> =>
            LET accept == calls[w][i].arg.activity
                origin == clientMsg[w].OriginAccount
                target == clientMsg[w].TargetAccount
            IN  /\ accept.type = "Accept"
                /\ accept.actor = URI(target)
                /\ accept.to = {URI(origin)}
                /\ accept.cc = {}
                /\ accept.object = FollowToAS(clientMsg[w].GTSModel, origin, target)
                /\ accept.object = SentBy(CreateOf(clientMsg[w]))
                /\ accept.object.type = "Follow"
                /\ accept.object.actor = URI(origin)
                /\ calls[w][i].arg.outbox = OutboxURI(target)
                /\ calls[w][i].arg.outbox # OutboxURI(origin)

C14_Witness ==
    \E w \in Workers :
        /\ VerbObj(w) = <<"Accept", "Follow">>
        /\ clientMsg[w].OriginAccount = "remote1"
        /\ clientMsg[w].TargetAccount = "local1"
        /\ result[w] = "ok"
        /\ SendIndexes(w) # {}

(***************************************************************************)
(* C15: the Undo of a Follow, of a Like and of a Block is addressed to one *)
(* recipient, the target of the wrapped activity (the followed account,    *)
(* the owner of the faved status, the blocked account), and leaves through *)
(* the outbox of the account that followed, faved or blocked.              *)
(***************************************************************************)
C15_UndoAddressedToTarget ==
    \A w \in Workers : \A i \in SendIndexes(w) :
        VerbObj(w) \in {<<"Undo", "Follow">>, <<"Undo", "Like">>, <<"Undo", "Block">>} =>
            LET undo == calls[w][i].arg.activity
                record == clientMsg[w].GTSModel
            IN  /\ undo.to = {URI(record.TargetAccountID)}
                /\ Cardinality(undo.to) = 1
                /\ undo.to = undo.object.to
                /\ VerbObj(w) # <<"Undo", "Like">> => undo.to = {undo.object.object}
                /\ calls[w][i].arg.outbox = OutboxURI(record.AccountID)
                /\ undo.object.actor = URI(record.AccountID)

C15_Witness ==
    \E w, v \in Workers :
        /\ VerbObj(w) = <<"Undo", "Like">>
        /\ result[w] = "ok"
        /\ SendIndexes(w) # {}
        /\ VerbObj(v) = <<"Undo", "Block">>
        /\ result[v] = "ok"
        /\ SendIndexes(v) # {}

(***************************************************************************)
(* C16: the Undo of a boost has the `to` and the `cc` of the Announce it   *)
(* wraps, and that Announce is the one recreated from the boost wrapper    *)
(* status.                                                                 *)
(***************************************************************************)
C16_UnannounceCopiesAddressing ==
    \A w \in Workers : \A i \in SendIndexes(w) :
        VerbObj(w) = <<"Undo", "Announce">> =>
            LET undo == calls[w][i].arg.activity
            IN  /\ undo.object = BoostToAS(clientMsg[w].GTSModel,
                                           clientMsg[w].OriginAccount,
                                           clientMsg[w].TargetAccount)
                /\ undo.object.type = "Announce"
                /\ undo.to = undo.object.to
                /\ undo.cc = undo.object.cc

C16_Witness ==
    \E w \in Workers :
        /\ VerbObj(w) = <<"Undo", "Announce">>
        /\ result[w] = "ok"
        /\ \E i \in SendIndexes(w) :
              /\ calls[w][i].arg.activity.to # {}
              /\ calls[w][i].arg.activity.cc # {}

(***************************************************************************)
(* Vocabulary of Create(Note).                                             *)
(***************************************************************************)
CreatesNote(w) ==
    /\ VerbObj(w) = <<"Create", "Note">>
    /\ clientMsg[w].GTSModel.kind = "Status"

NotToFederate(w) ==
    \/ ~clientMsg[w].GTSModel.Federated
    \/ Domain(clientMsg[w].GTSModel.AccountID) # ""

\* The call whose error the dispatch returned.
FailedOp(w) == calls[w][Len(calls[w])].op

(***************************************************************************)
(* C17 (as stated): a Create(Note) dispatch calls the delivery sink only   *)
(* for a status marked Federated whose author is local; for any other      *)
(* status the timeline and notification steps run, nothing is delivered    *)
(* and no error is returned beyond an error of those two steps.            *)
(***************************************************************************)
C17_NoteFederatedOnlyIfLocal ==
    \A w \in Workers : CreatesNote(w) =>
        /\ SendIndexes(w) # {} =>
              /\ clientMsg[w].GTSModel.Federated
              /\ Domain(clientMsg[w].GTSModel.AccountID) = ""
        /\ NotToFederate(w) =>
              /\ SendIndexes(w) = {}
              /\ result[w] = "ok" =>
                    OpsOf(LocalEffectsBefore(w, Len(calls[w]) + 1)) =
                        << "timelineStatus", "notifyStatus" >>
              /\ result[w] = "error" => FailedOp(w) \in {"timelineStatus", "notifyStatus"}

(***************************************************************************)
(* C17 (amended): as above, but a dispatch that delivers nothing may still *)
(* return an error that is not of the timeline or notification step: for   *)
(* a status marked Federated that comes without its author's account, the  *)
(* account is looked up before the author's domain is tested, and an error *)
(* of that lookup is returned even when the author is remote.  A status    *)
(* not marked Federated makes no call after the notification step.         *)
(***************************************************************************)
C17_NoteFederatedOnlyIfLocalOrLookupError ==
    \A w \in Workers : CreatesNote(w) =>
        /\ SendIndexes(w) # {} =>
              /\ clientMsg[w].GTSModel.Federated
              /\ Domain(clientMsg[w].GTSModel.AccountID) = ""
        /\ NotToFederate(w) =>
              /\ SendIndexes(w) = {}
              /\ result[w] = "ok" =>
                    OpsOf(LocalEffectsBefore(w, Len(calls[w]) + 1)) =
                        << "timelineStatus", "notifyStatus" >>
              /\ result[w] = "error" =>
                    \/ FailedOp(w) \in {"timelineStatus", "notifyStatus"}
                    \/ /\ FailedOp(w) = "GetAccountByID"
                       /\ clientMsg[w].GTSModel.Federated
                       /\ clientMsg[w].GTSModel.Account = NoAccount
              /\ ~clientMsg[w].GTSModel.Federated =>
                    \A i \in 1..Len(calls[w]) :
                        calls[w][i].op \in {"timelineStatus", "notifyStatus"}

\* The status of a remote author, marked Federated, has been dispatched
\* without error and without delivery; another, local but not marked
\* Federated, likewise.
C17_Witness ==
    \E w, v \in Workers :
        /\ CreatesNote(w) /\ CreatesNote(v)
        /\ result[w] = "ok" /\ result[v] = "ok"
        /\ clientMsg[w].GTSModel.Federated
        /\ Domain(clientMsg[w].GTSModel.AccountID) # ""
        /\ ~clientMsg[v].GTSModel.Federated
        /\ Domain(clientMsg[v].GTSModel.AccountID) = ""
        /\ SendIndexes(w) = {} /\ SendIndexes(v) = {}

(***************************************************************************)
(* C18: a dispatch never writes to the record its message carries: at      *)
(* every point of every dispatch the payload is the payload that was       *)
(* enqueued.                                                               *)
(***************************************************************************)
C18_PayloadUnchanged ==
    \A w \in Workers : Dispatched(w) => payload[w] = clientMsg[w].GTSModel

(***************************************************************************)
(* C19: a Delete(Profile/Person) dispatch makes one call, the deletion of  *)
(* the target account of the message, and returns what that call returns.  *)
(* The origin it records is the ID of the domain block when the payload is *)
(* a DomainBlock, the ID of the origin account otherwise; two dispatches   *)
(* for the same target differ in nothing but that origin.                  *)
(***************************************************************************)
DeletesProfile(w) == Dispatched(w) /\ VerbObj(w) \in DeleteProfilePairs

C19_DeleteProfileRecordsOrigin ==
    /\ \A w \in Workers : DeletesProfile(w) =>
          \/ result[w] = "running" /\ calls[w] = << >>
          \/ /\ Len(calls[w]) = 1
             /\ calls[w][1].op = "accountProcessor.Delete"
             /\ calls[w][1].arg.account = clientMsg[w].TargetAccount
             /\ calls[w][1].arg.origin =
                   (IF clientMsg[w].GTSModel.kind = "DomainBlock"
                    THEN clientMsg[w].GTSModel.ID
                    ELSE clientMsg[w].OriginAccount)
             /\ result[w] = (IF calls[w][1].ok THEN "ok" ELSE "error")
    /\ \A w, v \in Workers :
          /\ DeletesProfile(w) /\ DeletesProfile(v)
          /\ clientMsg[w].TargetAccount = clientMsg[v].TargetAccount
          /\ calls[w] # << >> /\ calls[v] # << >>
          => /\ calls[w][1].op = calls[v][1].op
             /\ calls[w][1].arg.account = calls[v][1].arg.account

\* The same account deleted once on behalf of a domain block and once on
\* behalf of an account.
C19_Witness ==
    \E w, v \in Workers :
        /\ DeletesProfile(w) /\ DeletesProfile(v)
        /\ clientMsg[w].GTSModel.kind = "DomainBlock"
        /\ clientMsg[v].GTSModel.kind = "Account"
        /\ clientMsg[w].TargetAccount = clientMsg[v].TargetAccount
        /\ result[w] = "ok" /\ result[v] = "ok"
        /\ calls[w][1].arg.origin = DomainBlockModel.ID
        /\ calls[v][1].arg.origin = clientMsg[v].OriginAccount

(***************************************************************************)
(* C20: the replies endpoint answers with items only to a request for a    *)
(* page that carries only_other_accounts.  A request for the collection is *)
(* served the collection, without items, with the link to its first page;  *)
(* a request for a page without only_other_accounts is served the first    *)
(* page, without items, whatever its min_id; neither asks the storage for  *)
(* the children of the status.                                             *)
(***************************************************************************)
AskedReplies(t) == Answered(t) /\ request[t].endpoint = "replies"

C20_ItemsOnlyForFilteredPage ==
    \A t \in Tasks : AskedReplies(t) =>
        LET query == request[t].query
            filtered == query.page /\ query.only_other_accounts # ""
        IN  /\ response[t].items # {} => filtered
            /\ ~filtered => ~trace[t].children
            /\ Served(t) /\ ~query.page =>
                  /\ response[t].body = "collection"
                  /\ response[t].first
                  /\ response[t].items = {}
            /\ Served(t) /\ query.page /\ query.only_other_accounts = "" =>
                  /\ response[t].body = "collectionPage"
                  /\ response[t].items = {}

\* Two requests for the page after "r1" are served: the one without the
\* filter gets no items, the one with it gets the reply of the other account.
C20_Witness ==
    \E t, u \in Tasks :
        /\ AskedReplies(t) /\ Served(t)
        /\ AskedReplies(u) /\ Served(u)
        /\ request[t].query = Query(TRUE, FALSE, "", "r1")
        /\ response[t].items = {} /\ ~trace[t].children
        /\ request[u].query = Query(TRUE, TRUE, "true", "r1")
        /\ response[u].items = {"r2"} /\ trace[u].children

(***************************************************************************)
(* C21: a page of replies asked for with only_other_accounts holds exactly *)
(* the immediate children of the status with an ID above min_id that are   *)
(* public or unlocked, that are not written by the requested account when  *)
(* only_other_accounts is true, that the owner of the status may see and   *)
(* that the requesting account may see.  A reply whose evaluation ends in  *)
(* an error (of the filter, or of parsing its URI) counts as failing.      *)
(***************************************************************************)
IDsAbove(minID) ==
    IF minID = "" THEN {Children[i].ID : i \in 1..Len(Children)}
    ELSE LET at == CHOOSE i \in 1..Len(Children) : Children[i].ID = minID
         IN  {Children[i].ID : i \in (at + 1)..Len(Children)}

Eligible(query, requestedAccount) ==
    {c.ID : c \in {Children[i] : i \in 1..Len(Children)} \ 
        {d \in {Children[i] : i \in 1..Len(Children)} :
            \/ d.ID \notin IDsAbove(query.minID)
            \/ d.Visibility \notin {"public", "unlocked"}
            \/ query.only_other_accounts = "true" /\ d.AccountID = requestedAccount
            \/ d.visibleToStatusOwner # "yes"
            \/ d.visibleToRequester # "yes"
            \/ ~Parses(d.URI)}}

PastBlockCheck(t) ==
    /\ Answered(t) /\ request[t].endpoint \in {"status", "replies"}
    /\ trace[t].blockChecked /\ ~trace[t].blocked
    /\ response[t].body # "IsBlocked"

NoSuchStatus(t) == StatusOwner(request[t].statusID) = NoAccount
StatusOfAnother(t) ==
    /\ ~NoSuchStatus(t)
    /\ StatusOwner(request[t].statusID) # GetLocalAccountByUsername(request[t].username)
StatusInvisible(t) == response[t].body = "not visible"
Withheld(t) ==
    PastBlockCheck(t) /\ (NoSuchStatus(t) \/ StatusOfAnother(t) \/ StatusInvisible(t))
Observable(resp) == [resp EXCEPT !.body = "none"]

C22_WithheldStatusesLookAlike ==
    /\ \A t \in Tasks : Withheld(t) => response[t].kind = "NotFound"
    /\ \A t, u \in Tasks :
          Withheld(t) /\ Withheld(u) => Observable(response[t]) = Observable(response[u])
    /\ \A t \in Tasks :
          PastBlockCheck(t) /\ response[t].kind = "NotFound" => Withheld(t)

\* A status of another account asked of one endpoint and an invisible
\* status asked of the other are both answered NotFound.
C22_Witness ==
    \E t, u \in Tasks :
        /\ Withheld(t) /\ StatusOfAnother(t) /\ request[t].endpoint = "status"
        /\ Withheld(u) /\ StatusInvisible(u) /\ request[u].endpoint = "replies"
        /\ response[t].kind = "NotFound" /\ response[u].kind = "NotFound"

(***************************************************************************)
(* C23: a request whose signature check fails or errs, and a request whose *)
(* requesting account cannot be resolved (the dereference failed or the    *)
(* request was canceled), are answered NotAuthorized by every endpoint;    *)
(* after a failed resolution no block check is made and no data is built.  *)
(***************************************************************************)
NeedsAuthentication(t) ==
    /\ GetLocalAccountByUsername(request[t].username) # NoAccount
    /\ request[t].endpoint = "user" => request[t].path = "user"

AuthenticationFailed(t) ==
    Answered(t) /\ NeedsAuthentication(t) /\ ~trace[t].authenticated

ResolutionFailed(t) ==
    Answered(t) /\ trace[t].resolved /\ trace[t].account = NoAccount

C23_FailClosed ==
    \A t \in Tasks :
        /\ AuthenticationFailed(t) =>
              /\ response[t] = Respond("NotAuthorized")
              /\ ~trace[t].resolved
        /\ ResolutionFailed(t) =>
              /\ response[t] = Respond("NotAuthorized")
              /\ ~trace[t].blockChecked
        /\ Served(t) /\ NeedsAuthentication(t) =>
              /\ trace[t].authenticated
              /\ trace[t].resolved => trace[t].account # NoAccount

\* One request for a collection fails its signature check, one request for
\* a status fails the dereference of its signer.
C23_Witness ==
    \E t, u \in Tasks :
        /\ AuthenticationFailed(t) /\ request[t].endpoint = "followers"
        /\ ResolutionFailed(u) /\ request[u].endpoint = "status"
        /\ trace[u].fetches = 1
        /\ response[t].kind = "NotAuthorized" /\ response[u].kind = "NotAuthorized"

(***************************************************************************)
(* C24: a call of Followers that reached its loop returns the collection   *)
(* of the URIs of the followers whose account is attached or found, in the *)
(* order of the follows; a follower whose lookup answers "no entries" is   *)
(* left out and does not fail the call; any other lookup error (and a URI  *)
(* that does not parse) fails the call, which then returns no collection.  *)
(***************************************************************************)
Resolved(follow) == follow.Account # NoAccount \/ follow.lookup = "ok"
FollowerURI(follow) == URI(follow.AccountID)
Breaks(follow) ==
    \/ follow.Account = NoAccount /\ follow.lookup = "error"
    \/ Resolved(follow) /\ ~Parses(FollowerURI(follow))

RECURSIVE ResolvedURIs(_)
ResolvedURIs(follows) ==
    IF follows = << >> THEN << >>
    ELSE IF Resolved(Head(follows))
         THEN << FollowerURI(Head(follows)) >> \o ResolvedURIs(Tail(follows))
         ELSE ResolvedURIs(Tail(follows))

EnteredLoop == followersCall.next > 0

C24_FollowersAreResolvedAccounts ==
    LET follows == followersCall.acctFollowers
        broken == \E i \in 1..Len(follows) : Breaks(follows[i])
    IN  /\ EnteredLoop /\ followersCall.result = "ok" =>
              /\ ~broken
              /\ followersCall.collection = ResolvedURIs(follows)
        /\ EnteredLoop /\ followersCall.result = "error" =>
              /\ broken
              /\ followersCall.collection = "nil"
        /\ EnteredLoop /\ followersCall.result = "running" =>
              followersCall.items =
                  ResolvedURIs(SubSeq(follows, 1, followersCall.next - 1))

\* Three follows, the second of an account that is gone: the collection
\* holds the first and the third, one attached and one looked up.
C24_Witness ==
    /\ followersCall.result = "ok"
    /\ followersCall.acctFollowers =
          << Follow("remote1", FALSE, "ok"),
             Follow("local2", FALSE, "ErrNoEntries"),
             Follow("local2", TRUE, "unused") >>
    /\ followersCall.collection = << URI("remote1"), URI("local2") >>

(***************************************************************************)
(* C25: GetFediUser, asked about a user it knows, serves the full profile  *)
(* only on a user path and only to an authenticated request; on a          *)
(* public-key path it serves the minimal profile or nothing and calls      *)
(* neither the signature check, nor the resolution of the requester, nor   *)
(* the block check; on any other path it answers BadRequest.               *)
(***************************************************************************)
AskedUser(t) ==
    /\ Answered(t) /\ request[t].endpoint = "user"
    /\ GetLocalAccountByUsername(request[t].username) # NoAccount

Uncalled(t) ==
    /\ ~trace[t].authenticated /\ ~trace[t].sawHandshake
    /\ ~trace[t].resolved /\ ~trace[t].waited /\ trace[t].fetches = 0
    /\ ~trace[t].blockChecked

C25_ProfileByPath ==
    \A t \in Tasks : AskedUser(t) =>
        /\ response[t].body = "person" =>
              request[t].path = "user" /\ trace[t].authenticated
        /\ request[t].path = "user" /\ Served(t) => response[t] = Data("person")
        /\ request[t].path = "publickey" =>
              /\ response[t] \in {Data("minimalPerson"), Respond("InternalError")}
              /\ Uncalled(t)
        /\ request[t].path \notin {"user", "publickey"} =>
              /\ response[t] = Respond("BadRequest")
              /\ Uncalled(t)

\* The key of a user is served unauthenticated while the profile of the
\* same user is served to an authenticated request.
C25_Witness ==
    \E t, u \in Tasks :
        /\ AskedUser(t) /\ request[t].path = "publickey"
        /\ response[t] = Data("minimalPerson") /\ Uncalled(t)
        /\ AskedUser(u) /\ request[u].path = "user"
        /\ request[u].username = request[t].username
        /\ response[u] = Data("person") /\ trace[u].authenticated

(***************************************************************************)
(* C26: the same Undo or Accept(Follow) message dispatched twice hands the *)
(* same envelope to the same outbox twice, and the second dispatch alters  *)
(* no local state that the first had not altered: it raises no             *)
(* notification that the first has raised.                                 *)
(***************************************************************************)
NotifyOps == {"notifyStatus", "notifyFollowRequest", "notifyFollow", "notifyFave",
              "notifyAnnounce"}

Redispatched(w, v) ==
    /\ w # v
    /\ clientMsg[w] = clientMsg[v]
    /\ \/ clientMsg[w].APActivityType = "Undo"
       \/ VerbObj(w) = <<"Accept", "Follow">>
    /\ result[w] = "ok" /\ result[v] = "ok"

SameEnvelopes(w, v) ==
    \A i \in SendIndexes(w) : \E j \in SendIndexes(v) : calls[w][i].arg = calls[v][j].arg

C26_RedispatchIsIdempotent ==
    \A w, v \in Workers : Redispatched(w, v) =>
        /\ SameEnvelopes(w, v) /\ SameEnvelopes(v, w)
        /\ \A i \in 1..Len(calls[v]) : \A j \in 1..Len(calls[w]) :
              calls[v][i].op \in NotifyOps => calls[w][j] # calls[v][i]

(***************************************************************************)
(* C27: in every branch the error of every local step is looked at, and    *)
(* the first step that fails ends the dispatch: its error is returned, no  *)
(* later step of the branch is run and nothing is delivered, while the     *)
(* steps before it have run and succeeded.  For Delete(Note): when the     *)
(* deletion of an attachment or of a mention fails, the earlier ones are   *)
(* deleted, notifications and timelines are not touched, and no Delete is  *)
(* sent.                                                                   *)
(***************************************************************************)
C27_FirstFailureEndsDispatch ==
    \A w \in Workers : Dispatched(w) =>
        LET n == Len(calls[w])
            plan == Plan(w)
        IN  /\ n <= Len(plan)
            /\ \A k \in 1..n :
                  /\ calls[w][k].op = plan[k].op
                  /\ calls[w][k].arg = plan[k].arg
            /\ \A k \in 1..Len(plan) : IsLocalEffect(plan[k]) => plan[k].fallible
            /\ \A k \in 1..n : ~calls[w][k].ok =>
                  /\ k = n
                  /\ result[w] = "error"
                  /\ IsLocalEffect(calls[w][k]) => SendIndexes(w) = {}
            /\ result[w] = "error" /\ n > 0 => ~calls[w][n].ok
            /\ /\ VerbObj(w) = <<"Delete", "Note">>
               /\ n > 0
               /\ ~calls[w][n].ok
               /\ calls[w][n].op \in {"mediaProcessor.Delete", "db.DeleteByID"}
               => \A k \in 1..n :
                     calls[w][k].op \notin
                         {"db.DeleteWhere", "deleteStatusFromTimelines", "Send"}

\* The attachment of a status is deleted, the deletion of its mention
\* fails: the dispatch has returned the error without going further.
C27_Witness ==
    \E w \in Workers :
        /\ VerbObj(w) = <<"Delete", "Note">>
        /\ result[w] = "error"
        /\ Len(calls[w]) >= 2
        /\ calls[w][Len(calls[w])].op = "db.DeleteByID"
        /\ ~calls[w][Len(calls[w])].ok
        /\ calls[w][Len(calls[w]) - 1].op = "mediaProcessor.Delete"
        /\ calls[w][Len(calls[w]) - 1].ok
        /\ Len(calls[w]) < Len(Plan(w))

C29_DeleteSentByAuthor ==
    \A w \in Workers : \A i \in SendIndexes(w) :
        VerbObj(w) = <<"Delete", "Note">> =>
            /\ calls[w][i].arg.activity.actor = URI(clientMsg[w].GTSModel.AccountID)
            /\ calls[w][i].arg.outbox = OutboxURI(clientMsg[w].GTSModel.AccountID)

(***************************************************************************)
(* C30 (as stated): a message between two local accounts has its local     *)
(* side effects applied as a message to a remote target has (the           *)
(* notification of a follow request, of a fave, of a follow; the timeline  *)
(* wipes of a block, one per direction), and its dispatch returns no       *)
(* error when those have succeeded.                                        *)
(***************************************************************************)
LocallyEffective ==
    {<<"Create", "Follow">>, <<"Create", "Like">>, <<"Accept", "Follow">>,
     <<"Create", "Block">>}

LocalEffects(w) == SelectSeq(calls[w], IsLocalEffect)

BetweenLocals(w) ==
    /\ Dispatched(w) /\ BothLocal(w) /\ ~Mismatched(w)
    /\ VerbObj(w) \in LocallyEffective
    /\ result[w] \in {"ok", "error"}

C30_BothLocalAppliesLocalEffects ==
    \A w \in Workers : BetweenLocals(w) /\ AllOk(LocalEffects(w)) =>
        /\ result[w] = "ok"
        /\ OpsOf(LocalEffects(w)) = RequiredLocalEffects(VerbObj(w))

(***************************************************************************)
(* C30 (amended): the same, except that the dispatch of a block whose      *)
(* record comes without its accounts looks them up after the wipes and     *)
(* returns the error of a lookup that fails.  A dispatch between two local *)
(* accounts that returns no error has made the local calls, in the order,  *)
(* that the dispatch of the same kind of message to a remote target makes, *)
(* and has delivered nothing.                                              *)
(***************************************************************************)
C30_BothLocalAppliesLocalEffectsOrLookupError ==
    /\ \A w \in Workers : BetweenLocals(w) /\ AllOk(LocalEffects(w)) =>
          /\ OpsOf(LocalEffects(w)) = RequiredLocalEffects(VerbObj(w))
          /\ result[w] = "error" =>
                /\ VerbObj(w) = <<"Create", "Block">>
                /\ FailedOp(w) = "GetAccountByID"
    /\ \A w, v \in Workers :
          /\ BetweenLocals(w) /\ result[w] = "ok"
          /\ Dispatched(v) /\ ~BothLocal(v) /\ ~Mismatched(v) /\ result[v] = "ok"
          /\ VerbObj(v) = VerbObj(w)
          /\ clientMsg[v].OriginAccount = clientMsg[w].OriginAccount
          => /\ OpsOf(LocalEffects(w)) = OpsOf(LocalEffects(v))
             /\ SendIndexes(w) = {}

\* A block of a local account and a block of a remote account by the same
\* account: both wipe the timelines in both directions, the second alone
\* delivers.
C30_Witness ==
    \E w, v \in Workers :
        /\ BetweenLocals(w) /\ result[w] = "ok"
        /\ VerbObj(w) = <<"Create", "Block">> /\ VerbObj(v) = <<"Create", "Block">>
        /\ result[v] = "ok" /\ ~BothLocal(v)
        /\ clientMsg[v].OriginAccount = clientMsg[w].OriginAccount
        /\ ArgsOf(LocalEffects(w)) =
              << <<clientMsg[w].OriginAccount, clientMsg[w].TargetAccount>>,
                 <<clientMsg[w].TargetAccount, clientMsg[w].OriginAccount>> >>
        /\ OpsOf(LocalEffects(v)) = OpsOf(LocalEffects(w))
        /\ SendIndexes(w) = {} /\ SendIndexes(v) # {}

(***************************************************************************)
(* C31: every endpoint looks the requested account up before it checks the *)
(* signature.  Where a signature is checked at all (every endpoint but the *)
(* public-key and malformed paths of GetFediUser), a request that is not   *)
(* authenticated is answered NotFound when the username is not a local     *)
(* account and NotAuthorized when it is: two such requests that differ     *)
(* only in the username are told apart by the kind of the error.           *)
(***************************************************************************)
Authenticating(t) ==
    /\ Answered(t)
    /\ request[t].endpoint = "user" => request[t].path = "user"

Unauthenticated(t) == Authenticating(t) /\ ~trace[t].authenticated

UnknownUser(t) == GetLocalAccountByUsername(request[t].username) = NoAccount

C31_LookupBeforeAuthentication ==
    /\ \A t \in Tasks : Unauthenticated(t) =>
          /\ response[t].kind \in {"NotFound", "NotAuthorized"}
          /\ response[t].kind = "NotFound" <=> UnknownUser(t)
    /\ \A t \in Tasks : Authenticating(t) /\ UnknownUser(t) =>
          response[t] = Respond("NotFound") /\ ~trace[t].authenticated
    /\ \A t, u \in Tasks :
          /\ Unauthenticated(t) /\ Unauthenticated(u)
          /\ [request[t] EXCEPT !.username = ""] = [request[u] EXCEPT !.username = ""]
          /\ UnknownUser(t) /\ ~UnknownUser(u)
          => response[t].kind # response[u].kind

\* The same request for the status of a user the server has and of a user
\* it has not, neither authenticated.
C31_Witness ==
    \E t, u \in Tasks :
        /\ Unauthenticated(t) /\ Unauthenticated(u)
        /\ request[t].endpoint = "status"
        /\ [request[t] EXCEPT !.username = ""] = [request[u] EXCEPT !.username = ""]
        /\ UnknownUser(t) /\ ~UnknownUser(u)
        /\ response[t].kind = "NotFound" /\ response[u].kind = "NotAuthorized"

(***************************************************************************)
(* C32: in the page of replies built with the filter, a reply for which    *)
(* the filter answers with an error (for the owner of the status or for    *)
(* the requester), or whose URI does not parse, is left out of the page;   *)
(* the page is still served with every other reply that passes, and the    *)
(* request fails only when the children cannot be read or the page cannot  *)
(* be built.                                                               *)
(***************************************************************************)
FilterErrs(c) == c.visibleToStatusOwner = "error" \/ c.visibleToRequester = "error"

Erring(c) == FilterErrs(c) \/ ~Parses(c.URI)

Passing(c, query, requestedAccount) ==
    /\ c.Visibility \in {"public", "unlocked"}
    /\ ~(query.only_other_accounts = "true" /\ c.AccountID = requestedAccount)
    /\ c.visibleToStatusOwner # "no"
    /\ c.visibleToRequester # "no"

InFilterLoop(t) == AskedReplies(t) /\ Answered(t) /\ trace[t].children

C32_ReplyErrorIsSkipped ==
    \A t \in Tasks : InFilterLoop(t) =>
        LET replies == GetStatusChildren(request[t].statusID, request[t].query.minID)
            requestedAccount == GetLocalAccountByUsername(request[t].username)
        IN  /\ \/ Served(t)
               \/ /\ response[t].kind = "InternalError"
                  /\ response[t].body \in {"GetStatusChildren", "StatusURIsToASRepliesPage"}
            /\ Served(t) =>
                  /\ \A c \in replies : Erring(c) => c.ID \notin response[t].items
                  /\ \A c \in replies :
                        ~Erring(c) /\ Passing(c, request[t].query, requestedAccount)
                        => c.ID \in response[t].items

\* A page is served with two replies while the children read hold a public
\* reply the filter could not judge for the owner, one it could not judge
\* for the requester, and one whose URI does not parse.
C32_Witness ==
    \E t \in Tasks :
        /\ InFilterLoop(t) /\ Served(t)
        /\ response[t].items = {"r1", "r2"}
        /\ LET replies == GetStatusChildren(request[t].statusID, request[t].query.minID)
           IN  /\ \E c \in replies : c.visibleToStatusOwner = "error" /\ c.Visibility = "public"
               /\ \E c \in replies : c.visibleToRequester = "error" /\ c.visibleToStatusOwner = "yes"
               /\ \E c \in replies : ~Parses(c.URI) /\ ~FilterErrs(c) /\ c.Visibility = "public"

(***************************************************************************)
(* C33: in GetFediFollowers, GetFediFollowing, GetFediStatus and           *)
(* GetFediStatusReplies an error of the block check ends the request with  *)
(* InternalError and without data, and a collection, a status or replies   *)
(* are built only after the block check answered that neither account      *)
(* blocks the other.                                                       *)
(***************************************************************************)
BlockGated(t) ==
    /\ Answered(t)
    /\ request[t].endpoint \in {"followers", "following", "status", "replies"}

BlockCheckFailed(t) == BlockGated(t) /\ response[t].body = "IsBlocked"

DefinitelyNotBlocked(t) ==
    /\ trace[t].blockChecked /\ ~trace[t].blocked
    /\ ~BlockCheckFailed(t)
    /\ ~IsBlocked(GetLocalAccountByUsername(request[t].username), trace[t].account, TRUE)

C33_BlockErrorIsInternalError ==
    \A t \in Tasks : BlockGated(t) =>
        /\ BlockCheckFailed(t) =>
              /\ response[t] = Because("InternalError", "IsBlocked")
              /\ trace[t].blockChecked /\ ~trace[t].children
        /\ Served(t) \/ trace[t].children => DefinitelyNotBlocked(t)

\* The block check fails for a request for followers and for a request for
\* replies, whatever the block table holds, and both end with InternalError.
C33_Witness ==
    \E t, u \in Tasks :
        /\ BlockCheckFailed(t) /\ request[t].endpoint = "followers"
        /\ BlockCheckFailed(u) /\ request[u].endpoint = "replies"
        /\ ~IsBlocked(GetLocalAccountByUsername(request[t].username), trace[t].account, TRUE)
        /\ IsBlocked(GetLocalAccountByUsername(request[u].username), trace[u].account, TRUE)
        /\ response[t].kind = "InternalError" /\ response[u].kind = "InternalError"

====
